---- MODULE Spec2Model ----
(***************************************************************************)
(* Connection registry and driver abstraction of database-mcp-server.     *)
(*                                                                         *)
(* The specifications of this module:                                      *)
(*   Spec        the DatabaseManager called one call at a time: its Map of *)
(*               named connections, the auto-name counter, the driver      *)
(*               instances it created and the call in flight (each call is *)
(*               suspended at its await and resumed by a separate step);   *)
(*   TimedSpec   the same with the clock moving on between calls, on       *)
(*               connections with a given name;                            *)
(*   DriverSpec  one driver instance of any of the four classes used       *)
(*               directly, its configuration drawn from bounded sets.      *)
(*   ServerSpec  the server process: its ConfigManager loads the           *)
(*               configuration, the server starts, tools call the manager  *)
(*               one at a time, and a signal or an uncaught error shuts    *)
(*               the process down at any moment; LiveServerSpec adds that  *)
(*               a suspended step is resumed.                              *)
(*   ConcSpec    the DatabaseManager with calls interleaved: a call may    *)
(*               start while another is suspended at its await;            *)
(*   ConfigSpec  the ConfigManager alone, loading its configuration from   *)
(*               any combination of candidate files and variables.         *)
(* Strings built by template literals are sequences of tokens, so that     *)
(* "the message names field f" is "f is one of its tokens".                *)
(***************************************************************************)
EXTENDS Integers, Sequences, FiniteSets, TLC

VARIABLES
    connections,   \* DatabaseManager.connections: the Map's entry list, in insertion order
    connectionId,  \* DatabaseManager.connectionId
    drivers,       \* the driver instances that created a client handle, by slot
    calls,         \* the manager calls: one record per call slot
    now,           \* the clock read by new Date()
    d,             \* DriverSpec: the driver instance under direct use
    dpc,           \* DriverSpec: where the driver operation in flight is suspended
    dout,          \* DriverSpec: the outcome of the last driver operation
    srv            \* ServerSpec: the process, with the configuration its ConfigManager loaded

vars == <<connections, connectionId, drivers, calls, now, d, dpc, dout, srv>>
mgrVars == <<connections, connectionId, drivers, calls, now>>

---------------------------------------------------------------------------
(* Bounds of the model *)

MaxCalls == 2      \* manager calls that can be in flight together
MaxDrivers == 2    \* driver instances that create a client handle
MaxTime == 1       \* largest clock value
MaxAutoId == 2     \* largest value of the auto-name counter
MaxRounds == 2     \* passes of a disconnectAll() loop after which no connect() starts

---------------------------------------------------------------------------
(* Values *)

Undefined == "undefined"     \* a field the configuration object does not have
Null == "null"
Live == "handle"             \* a Pool / Redis / DynamoDBClient object

\* JavaScript truthiness of a configuration value: !value
Falsy(v) == v \in {Undefined, ""}

\* The tokens of `s`
Tokens(s) == {s[i] : i \in 1..Len(s)}
Contains(s, tok) == tok \in Tokens(s)

\* Array.prototype.join
RECURSIVE Join(_, _)
Join(seq, sep) ==
    IF Len(seq) = 0 THEN <<>>
    ELSE IF Len(seq) = 1 THEN <<seq[1]>>
    ELSE <<seq[1], sep>> \o Join(Tail(seq), sep)

\* String.prototype.toLowerCase on the type strings of the model
ToLowerCase(s) ==
    CASE s = "PG" -> "pg"
      [] s = "MySQL" -> "mysql"
      [] s = "POSTGRESQL" -> "postgresql"
      [] s = "Redis" -> "redis"
      [] s = "DynamoDB" -> "dynamodb"
      [] OTHER -> s

NoErr == <<>>


---------------------------------------------------------------------------
(* Drivers *)

DriverClasses == {"PostgreSQLDriver", "MySQLDriver", "DynamoDBDriver", "RedisDriver"}
PoolClasses == {"PostgreSQLDriver", "MySQLDriver"}

BackendMsg == "backend error"      \* the message of an error raised by a client library
QuitMsg == "quit error"            \* the message of an error raised by client.quit()
Placeholder == "***"
NotConnectedMsg == <<"Database not connected. Call connect() first.">>

\* The outcomes of a round trip to the backend
Outcomes == {"ok", "fail"}

\* constructor of a driver class
NewDriver(cls, config) ==
    [cls |-> cls, config |-> config, pool |-> Null, client |-> Null,
     connected |-> FALSE]

\* this.defaultPort
DefaultPort(cls) ==
    CASE cls = "PostgreSQLDriver" -> "5432"
      [] cls = "MySQLDriver" -> "3306"
      [] cls = "RedisDriver" -> "6379"
      [] OTHER -> Undefined

\* const required = [...]
RequiredFields(cls) ==
    CASE cls = "DynamoDBDriver" -> <<"region", "accessKeyId", "secretAccessKey">>
      [] cls = "RedisDriver" -> <<"host">>
      [] OTHER -> <<"host", "database", "user", "password">>

\* required.filter(field => !this.config[field]) dropping all but the first
MissingFirstOnly(cls, config) ==
    LET all == SelectSeq(RequiredFields(cls), LAMBDA f : Falsy(config[f]))
    IN  IF Len(all) = 0 THEN all ELSE <<all[1]>>

\* required.filter(field => !this.config[field])
Missing(cls, config) ==
    SelectSeq(RequiredFields(cls), LAMBDA f : Falsy(config[f]))

MissingPrefix(cls) ==
    CASE cls = "DynamoDBDriver" -> "Missing required DynamoDB configuration fields: "
      [] cls = "RedisDriver" -> "Missing required Redis configuration fields: "
      [] OTHER -> "Missing required configuration fields: "

\* /^[a-z]{2}-[a-z]+-\d{1}$/.test(region), on the regions of the model
RegionPatternTest(region) == region \in {"us-east-1", "eu-west-1"}

\* isNaN(parseInt(v, 10)) and parseInt(v, 10), on the database values of the model
ParseIntIsNaN(v) == v \notin {"0", "7", "16"}
ParseInt(v) == CASE v = "0" -> 0 [] v = "7" -> 7 [] v = "16" -> 16 [] OTHER -> 0

\* validateConfig(): the message of the error it throws, NoErr when it returns
ValidateConfig(cls, config) ==
    LET missing == Missing(cls, config)
    IN  IF Len(missing) > 0
        THEN <<MissingPrefix(cls)>> \o Join(missing, ", ")
        ELSE IF cls = "DynamoDBDriver"
        THEN IF ~RegionPatternTest(config.region) /\ Falsy(config.endpoint)
             THEN <<"Invalid AWS region format: ", config.region>>
             ELSE NoErr
        ELSE IF cls = "RedisDriver"
        THEN IF config.database # Undefined
                /\ (ParseIntIsNaN(config.database)
                    \/ ParseInt(config.database) < 0
                    \/ ParseInt(config.database) > 15)
             THEN <<"Redis database must be a number between 0 and 15">>
             ELSE NoErr
        ELSE NoErr

\* The handle field of a driver class: this.pool or this.client
HasHandle(drv) ==
    IF drv.cls \in PoolClasses THEN drv.pool # Null ELSE drv.client # Null
SetHandle(drv, h) ==
    IF drv.cls \in PoolClasses THEN [drv EXCEPT !.pool = h] ELSE [drv EXCEPT !.client = h]

\* connect() up to its first await. await: the round trip was started.
DriverConnectBegin(drv) ==
    LET err == ValidateConfig(drv.cls, drv.config)
    IN  IF err # NoErr
        THEN [drv |-> drv, err |-> err, await |-> FALSE]
        ELSE [drv |-> SetHandle(drv, Live), err |-> NoErr, await |-> TRUE]

\* connect() resumed with the outcome of the round trip. await: (Redis) the
\* catch block is suspended in client.quit().
DriverConnectEnd(drv, outcome) ==
    IF outcome = "ok"
    THEN [drv |-> [drv EXCEPT !.connected = TRUE], err |-> NoErr, await |-> FALSE]
    ELSE IF drv.cls = "DynamoDBDriver"
    THEN [drv |-> SetHandle(drv, Null),
          err |-> <<"Failed to connect to DynamoDB: ", BackendMsg>>, await |-> FALSE]
    ELSE IF drv.cls = "RedisDriver"
    THEN [drv |-> drv, err |-> NoErr, await |-> TRUE]
    ELSE [drv |-> drv, err |-> <<BackendMsg>>, await |-> FALSE]

\* RedisDriver.connect(): the catch block resumed with the outcome of client.quit()
DriverConnectQuitEnd(drv, outcome) ==
    IF outcome = "ok"
    THEN [drv |-> SetHandle(drv, Null),
          err |-> <<"Failed to connect to Redis: ", BackendMsg>>, await |-> FALSE]
    ELSE [drv |-> drv, err |-> <<QuitMsg>>, await |-> FALSE]

\* the handle released without a look at whether there is one
DisconnectUnguarded(drv) == [drv |-> drv, err |-> NoErr, await |-> TRUE]

\* disconnect() up to its first await. await: pool.end() / client.quit() was called.
DriverDisconnectBegin(drv) ==
    IF ~HasHandle(drv)
    THEN [drv |-> drv, err |-> NoErr, await |-> FALSE]
    ELSE IF drv.cls = "DynamoDBDriver"
    THEN [drv |-> SetHandle(drv, Null), err |-> NoErr, await |-> FALSE]
    ELSE [drv |-> drv, err |-> NoErr, await |-> TRUE]

\* disconnect() resumed with the outcome of pool.end() / client.quit()
DriverDisconnectEnd(drv, outcome) ==
    IF outcome = "ok"
    THEN [drv |-> SetHandle(drv, Null), err |-> NoErr]
    ELSE IF drv.cls = "RedisDriver"
    THEN [drv |-> SetHandle(drv, Null), err |-> NoErr]
    ELSE [drv |-> drv, err |-> <<BackendMsg>>]

QueryErrorPrefix(cls) ==
    CASE cls = "PostgreSQLDriver" -> "PostgreSQL query error: "
      [] cls = "MySQLDriver" -> "MySQL query error: "
      [] cls = "DynamoDBDriver" -> "DynamoDB query error: "
      [] OTHER -> "Redis command error: "

\* query() up to its await
DriverQueryBegin(drv) ==
    IF ~HasHandle(drv)
    THEN [err |-> NotConnectedMsg, await |-> FALSE]
    ELSE [err |-> NoErr, await |-> TRUE]

\* query() resumed: the message of the error it throws, NoErr when it returns
DriverQueryEnd(drv, outcome) ==
    IF outcome = "ok" THEN NoErr ELSE <<QueryErrorPrefix(drv.cls), BackendMsg>>

SuccessfulTest == [success |-> TRUE, message |-> <<"Connection successful">>]
\* the catch block of testConnection() dropping error.message
FailedTestSilent(msg) == [success |-> FALSE, message |-> <<>>]

\* return { success: false, message: error.message }
FailedTest(msg) == [success |-> FALSE, message |-> msg]

\* testConnection() up to its await; result is what it returns when it does not suspend
DriverTestBegin(drv) ==
    IF HasHandle(drv)
    THEN [await |-> TRUE, result |-> SuccessfulTest]
    ELSE IF drv.cls \in PoolClasses
    THEN [await |-> FALSE, result |-> FailedTest(NotConnectedMsg)]
    ELSE [await |-> FALSE, result |-> FailedTest(<<"Client not initialized">>)]

\* testConnection() resumed with the outcome of the round trip ("odd": a reply
\* to PING other than PONG)
DriverTestEnd(drv, outcome) ==
    IF outcome = "ok" THEN SuccessfulTest
    ELSE IF outcome = "odd" /\ drv.cls = "RedisDriver"
    THEN FailedTest(<<"Unexpected PING response">>)
    ELSE IF drv.cls \in PoolClasses
    THEN FailedTest(<<QueryErrorPrefix(drv.cls), BackendMsg>>)
    ELSE FailedTest(<<BackendMsg>>)

\* `port = this.defaultPort` in a destructuring
PortOf(drv) ==
    IF drv.config.port = Undefined THEN DefaultPort(drv.cls) ELSE drv.config.port

PostgreSQLConnectionString(drv) ==
    <<"postgresql://", drv.config.user, ":", drv.config.password, "@",
      drv.config.host, ":", PortOf(drv), "/", drv.config.database>>

MySQLConnectionString(drv) ==
    <<"mysql://", drv.config.user, ":", drv.config.password, "@",
      drv.config.host, ":", PortOf(drv), "/", drv.config.database>>

DynamoDBConnectionString(drv) ==
    IF ~Falsy(drv.config.endpoint)
    THEN <<"dynamodb://", drv.config.region, "@", drv.config.endpoint>>
    ELSE <<"dynamodb://", drv.config.region>>

RedisConnectionString(drv) ==
    LET database == IF drv.config.database = Undefined THEN "0" ELSE drv.config.database
        protocol == IF ~Falsy(drv.config.tls) THEN "rediss" ELSE "redis"
    IN  IF ~Falsy(drv.config.password)
        THEN <<protocol, "://", Placeholder, "@", drv.config.host, ":", PortOf(drv),
               "/", database>>
        ELSE <<protocol, "://", drv.config.host, ":", PortOf(drv), "/", database>>

\* getConnectionString()
GetConnectionString(drv) ==
    CASE drv.cls = "PostgreSQLDriver" -> PostgreSQLConnectionString(drv)
      [] drv.cls = "MySQLDriver" -> MySQLConnectionString(drv)
      [] drv.cls = "DynamoDBDriver" -> DynamoDBConnectionString(drv)
      [] OTHER -> RedisConnectionString(drv)

---------------------------------------------------------------------------
(* DriverSpec: one driver instance used directly *)

Secret == "p4ss"              \* the password of the configurations of the model
SecretKey == "s3cr3tkey"      \* their secretAccessKey

EmptyConfig ==
    [host |-> Undefined, port |-> Undefined, database |-> Undefined, user |-> Undefined,
     password |-> Undefined, region |-> Undefined, accessKeyId |-> Undefined,
     secretAccessKey |-> Undefined, endpoint |-> Undefined, tls |-> Undefined]

RelationalConfigs ==
    {[EmptyConfig EXCEPT !.host = h, !.port = pt, !.database = db, !.user = u,
                         !.password = pw] :
        h \in {Undefined, "h"}, pt \in {Undefined, "5433"}, db \in {Undefined, "d"},
        u \in {Undefined, "u"}, pw \in {Undefined, "", Secret}}

DynamoDBConfigs ==
    {[EmptyConfig EXCEPT !.region = r, !.accessKeyId = ak, !.secretAccessKey = sk,
                         !.endpoint = e] :
        r \in {Undefined, "us-east-1", "local"}, ak \in {Undefined, "AKIA"},
        sk \in {Undefined, SecretKey}, e \in {Undefined, "http://localhost:8000"}}

RedisConfigs ==
    {[EmptyConfig EXCEPT !.host = h, !.port = pt, !.database = db, !.password = pw,
                         !.tls = t] :
        h \in {Undefined, "h"}, pt \in {Undefined, "6380"},
        db \in {Undefined, "0", "16", "d"}, pw \in {Undefined, Secret},
        t \in {Undefined, "true"}}

ConfigsOf(cls) ==
    CASE cls \in PoolClasses -> RelationalConfigs
      [] cls = "DynamoDBDriver" -> DynamoDBConfigs
      [] OTHER -> RedisConfigs

NoDriver == NewDriver("none", EmptyConfig)
NoOut == [op |-> "none", err |-> NoErr, awaited |-> FALSE, str |-> <<>>,
          test |-> FailedTest(<<>>), arg |-> "", res |-> [kind |-> "none"]]
Out(op, err, awaited) == [NoOut EXCEPT !.op = op, !.err = err, !.awaited = awaited]

\* new DriverClass(config)
DConstruct(cls, config) ==
    /\ d = NoDriver
    /\ d' = NewDriver(cls, config)
    /\ dout' = Out("new", NoErr, FALSE)
    /\ UNCHANGED dpc
    /\ UNCHANGED <<mgrVars, srv>>

\* driver.connect(), to its await or to the error it throws before it
DConnect ==
    /\ UNCHANGED <<mgrVars, srv>>
    /\ d # NoDriver /\ dpc = "idle"
    /\ LET r == DriverConnectBegin(d)
       IN  /\ d' = r.drv
           /\ dpc' = IF r.await THEN "connect" ELSE "idle"
           /\ dout' = Out("connect", r.err, r.await)

\* the round trip of connect() ends
DConnectResume(outcome) ==
    /\ UNCHANGED <<mgrVars, srv>>
    /\ dpc = "connect"
    /\ LET r == DriverConnectEnd(d, outcome)
       IN  /\ d' = r.drv
           /\ dpc' = IF r.await THEN "quit" ELSE "idle"
           /\ dout' = Out("connect", r.err, TRUE)

\* client.quit() in the catch block of RedisDriver.connect() ends
DConnectQuitResume(outcome) ==
    /\ UNCHANGED <<mgrVars, srv>>
    /\ dpc = "quit"
    /\ LET r == DriverConnectQuitEnd(d, outcome)
       IN  /\ d' = r.drv
           /\ dpc' = "idle"
           /\ dout' = Out("connect", r.err, TRUE)

\* driver.disconnect(), to its await or to its return
DDisconnect ==
    /\ UNCHANGED <<mgrVars, srv>>
    /\ d # NoDriver /\ dpc = "idle"
    /\ LET r == DriverDisconnectBegin(d)
       IN  /\ d' = r.drv
           /\ dpc' = IF r.await THEN "disconnect" ELSE "idle"
           /\ dout' = Out("disconnect", r.err, r.await)

\* pool.end() / client.quit() of disconnect() ends
DDisconnectResume(outcome) ==
    /\ UNCHANGED <<mgrVars, srv>>
    /\ dpc = "disconnect"
    /\ LET r == DriverDisconnectEnd(d, outcome)
       IN  /\ d' = r.drv
           /\ dpc' = "idle"
           /\ dout' = Out("disconnect", r.err, TRUE)

\* driver.testConnection(), to its await or to its return
DTestConnection ==
    /\ UNCHANGED <<mgrVars, srv>>
    /\ d # NoDriver /\ dpc = "idle"
    /\ LET r == DriverTestBegin(d)
       IN  /\ dpc' = IF r.await THEN "test" ELSE "idle"
           /\ dout' = [Out("testConnection", NoErr, r.await) EXCEPT !.test = r.result]
           /\ UNCHANGED d

\* the round trip of testConnection() ends
DTestResume(outcome) ==
    /\ UNCHANGED <<mgrVars, srv>>
    /\ dpc = "test"
    /\ dpc' = "idle"
    /\ dout' = [Out("testConnection", NoErr, TRUE) EXCEPT !.test = DriverTestEnd(d, outcome)]
    /\ UNCHANGED d

\* driver.getConnectionString()
DGetConnectionString ==
    /\ d # NoDriver /\ dpc = "idle"
    /\ dout' = [Out("getConnectionString", NoErr, FALSE) EXCEPT !.str = GetConnectionString(d)]
    /\ UNCHANGED <<d, dpc>>
    /\ UNCHANGED <<mgrVars, srv>>

---------------------------------------------------------------------------
(* The driver registry *)

\* Object.keys(SUPPORTED_DRIVERS)
SupportedTypes == <<"postgresql", "postgres", "pg", "mysql", "mysql2">>

\* SUPPORTED_DRIVERS[driverType]; "none" when the lookup is undefined
SupportedDrivers(driverType) ==
    CASE driverType \in {"postgresql", "postgres", "pg"} -> "PostgreSQLDriver"
      [] driverType \in {"mysql", "mysql2"} -> "MySQLDriver"
      [] OTHER -> "none"

\* createDriver falling back to a default driver for an unknown type
CreateDriverDefault(type) ==
    IF SupportedDrivers(ToLowerCase(type)) = "none" THEN "PostgreSQLDriver"
    ELSE SupportedDrivers(ToLowerCase(type))

\* createDriver(type, config): the class it instantiates, "none" when it throws
CreateDriver(type) == SupportedDrivers(ToLowerCase(type))

UnsupportedMsg(type) ==
    <<"Unsupported database type: ", type, ". Supported types: ">>
        \o Join(SupportedTypes, ", ")

\* createDriver(type, config) called on its own
DCreateDriver(type, config) ==
    /\ d = NoDriver
    /\ dpc = "idle"
    /\ LET cls == CreateDriver(type)
       IN  IF cls = "none"
           THEN /\ dout' = [Out("createDriver", UnsupportedMsg(type), FALSE)
                               EXCEPT !.arg = type]
                /\ UNCHANGED d
           ELSE /\ dout' = [Out("createDriver", NoErr, FALSE) EXCEPT !.arg = type]
                /\ d' = NewDriver(cls, config)
    /\ UNCHANGED dpc
    /\ UNCHANGED <<mgrVars, srv>>

---------------------------------------------------------------------------
(* DatabaseManager: the Map of connections *)

\* this.connections.has(name)
Has(name) == \E i \in 1..Len(connections) : connections[i].key = name
IndexOf(name) == CHOOSE i \in 1..Len(connections) : connections[i].key = name
\* this.connections.get(name), for a name the Map has
Get(name) == connections[IndexOf(name)].value

\* this.connections.set(name, value): an existing key keeps its place
MapSet(name, value) ==
    IF Has(name)
    THEN [connections EXCEPT ![IndexOf(name)].value = value]
    ELSE Append(connections, [key |-> name, value |-> value])

\* this.connections.clear()
MapClear(name) == <<>>
\* this.connections.delete(name)
MapDelete(name) == SelectSeq(connections, LAMBDA e : e.key # name)

\* The names registered, in insertion order
KeysOf(conns) == [i \in 1..Len(conns) |-> conns[i].key]
Keys == KeysOf(connections)

\* hasConnection(name)
HasConnection(name) == Has(name)

---------------------------------------------------------------------------
(* DatabaseManager: calls *)

Calls == 1..MaxCalls

NoVal == [kind |-> "none"]

\* A call slot no call has used
IdleCall ==
    [op |-> "none", pc |-> "idle", name |-> "", reqName |-> "", type |-> "", drv |-> 0,
     net |-> FALSE, err |-> NoErr, val |-> NoVal, it |-> 0, results |-> <<>>,
     invoked |-> FALSE, conns0 |-> <<>>, id0 |-> 0, arg |-> <<>>]

InFlight(c) == calls[c].pc \notin {"idle", "done"}

\* A call may start in slot c: the slot is the lowest one that is idle, and
\* the caller of every call that ended has taken its result
Free(c) ==
    /\ calls[c].pc = "idle"
    /\ \A c2 \in 1..(c - 1) : InFlight(c2)
    /\ \A c2 \in Calls : calls[c2].pc # "done"

\* The call records when a call starts in slot c as `rec`
Started(c, rec) == [calls EXCEPT ![c] = rec]

\* No call is in flight
Quiet == \A c \in Calls : ~InFlight(c)

\* Driver slot i holds an object the program can still reach or that still
\* holds a client handle
Retained(i) ==
    \/ HasHandle(drivers[i])
    \/ \E k \in 1..Len(connections) : connections[k].value.driver = i
    \/ \E c \in Calls : InFlight(c) /\ calls[c].drv = i

\* The driver slots once the garbage collector has run
Reclaimed == [i \in 1..MaxDrivers |-> IF Retained(i) THEN drivers[i] ELSE NoDriver]

\* The record of a call that starts now: conns0 and id0 keep the Map and the
\* counter the call found
NewCall(op, name) ==
    [IdleCall EXCEPT !.op = op, !.name = name, !.conns0 = connections,
                     !.id0 = connectionId]
Thrown(rec, err) == [rec EXCEPT !.pc = "done", !.err = err]
Returned(rec, val) == [rec EXCEPT !.pc = "done", !.val = val]

\* a missing name passed over in silence
NotFoundIgnored(name) == NoErr

\* throw new Error(`Connection '${name}' not found`)
NotFoundMsg(name) == <<"Connection '", name, "' not found">>
DuplicateMsg(name) == <<"Connection '", name, "' already exists">>
TypeRequiredMsg == <<"Database type is required">>

\* The Date the clock shows moves on
Tick ==
    /\ now < MaxTime
    /\ Len(connections) > 0
    /\ \A c \in Calls : calls[c].pc = "idle"
    /\ now' = now + 1
    /\ UNCHANGED <<connections, connectionId, drivers, calls, d, dpc, dout, srv>>

\* The caller of the call that ended in slot c takes its result; the driver
\* objects nothing refers to any more are collected
Return(c) ==
    /\ calls[c].pc = "done"
    /\ calls' = [calls EXCEPT ![c] = IdleCall]
    /\ drivers' = Reclaimed
    /\ UNCHANGED <<connections, connectionId, now, d, dpc, dout, srv>>

---------------------------------------------------------------------------
(* connect(config) *)

\* the number read before the counter is advanced
NameFromStaleCounter(type, name) ==
    IF name # "" THEN name ELSE type \o "_" \o ToString(connectionId)

\* name || `${type}_${++this.connectionId}`
ConnectionName(type, name) ==
    IF name # "" THEN name ELSE type \o "_" \o ToString(connectionId + 1)

\* the duplicate check left out
NameTakenNever(name) == FALSE

\* this.connections.has(connectionName)
NameTaken(name) == Has(name)

\* { type, name: connectionName, ...dbConfig }
DescriptorConfig(type, name, dbConfig) ==
    ("type" :> type) @@ ("name" :> name) @@ dbConfig

Descriptor(drv, type, name) ==
    [driver |-> drv, config |-> DescriptorConfig(type, name, drivers[drv].config),
     createdAt |-> now, lastUsed |-> now]

\* the descriptor registered whatever driver.connect() reported
RegisterAlways(rec, err) == MapSet(rec.name, Descriptor(rec.drv, rec.type, rec.name))

\* The Map after `await driver.connect()` ended with error `err` (NoErr: it returned)
RegisterAfterConnect(rec, err) ==
    IF err = NoErr THEN MapSet(rec.name, Descriptor(rec.drv, rec.type, rec.name))
    ELSE connections

ConnectFailedMsg(type, err) == <<"Failed to connect to ", type, " database: ">> \o err

\* connect(config) up to `await driver.connect()`
ConnectBegin(c, type, name, dbConfig) ==
    /\ Free(c)
    /\ UNCHANGED <<now, connections, d, dpc, dout, srv>>
    /\ LET cname == ConnectionName(type, name)
           rec == [NewCall("connect", cname) EXCEPT !.type = type, !.reqName = name]
           cls == CreateDriver(type)
           b == DriverConnectBegin(NewDriver(cls, dbConfig))
           free == {i \in 1..MaxDrivers : drivers[i] = NoDriver}
       IN  IF type = ""
           THEN /\ calls' = Started(c, Thrown(rec, TypeRequiredMsg))
                /\ UNCHANGED drivers
                /\ UNCHANGED connectionId
           ELSE /\ name = "" => connectionId < MaxAutoId
                /\ connectionId' = IF name = "" THEN connectionId + 1 ELSE connectionId
                /\ IF NameTaken(cname)
                   THEN /\ calls' = Started(c, Thrown(rec, DuplicateMsg(cname)))
                        /\ UNCHANGED drivers
                   ELSE IF cls = "none"
                   THEN /\ calls' = Started(c,
                                Thrown(rec, ConnectFailedMsg(type, UnsupportedMsg(type))))
                        /\ UNCHANGED drivers
                   ELSE IF ~b.await
                   THEN /\ calls' = Started(c,
                                Thrown([rec EXCEPT !.invoked = TRUE],
                                       ConnectFailedMsg(type, b.err)))
                        /\ UNCHANGED drivers
                   ELSE /\ free # {}
                        /\ LET i == CHOOSE i \in free : \A j \in free : i <= j
                           IN  /\ drivers' = [drivers EXCEPT ![i] = b.drv]
                               /\ calls' = Started(c,
                                      [rec EXCEPT !.invoked = TRUE, !.pc = "connect",
                                                  !.drv = i])

\* connect(config) resumed when the round trip of driver.connect() ends
ConnectEnd(c, outcome) ==
    /\ calls[c].pc = "connect"
    /\ UNCHANGED <<now, connectionId, d, dpc, dout, srv>>
    /\ LET rec == calls[c]
           r == DriverConnectEnd(drivers[rec.drv], outcome)
       IN  /\ drivers' = [drivers EXCEPT ![rec.drv] = r.drv]
           /\ connections' = RegisterAfterConnect(rec, r.err)
           /\ calls' = [calls EXCEPT ![c] =
                  IF r.err = NoErr
                  THEN Returned(rec, [name |-> rec.name, type |-> rec.type,
                                      status |-> "connected", createdAt |-> now])
                  ELSE Thrown(rec, ConnectFailedMsg(rec.type, r.err))]

---------------------------------------------------------------------------
(* disconnect(name) and disconnectAll() *)

DisconnectFailedMsg(name, err) == <<"Failed to disconnect from '", name, "': ">> \o err

\* The position of a Map iterator after delete(name): the entries behind it
\* close up (the iterator of a live Map skips deleted entries and visits
\* entries added during the iteration)
IteratorAfterDelete(it, name) ==
    IF Has(name) /\ IndexOf(name) <= it THEN it - 1 ELSE it

\* The call records after this.connections.delete(name)
AfterDelete(cs, name) ==
    [c2 \in Calls |->
        IF cs[c2].pc = "disconnectAll"
        THEN [cs[c2] EXCEPT !.it = IteratorAfterDelete(@, name)]
        ELSE cs[c2]]

\* The Map after `await connection.driver.disconnect()` ended with error `err`
UnregisterAfterDisconnect(name, err) ==
    IF err = NoErr THEN MapDelete(name) ELSE connections

\* The driver's disconnect() resumed, when it was suspended at all
DisconnectResumed(rec, outcome) ==
    IF rec.net THEN DriverDisconnectEnd(drivers[rec.drv], outcome)
    ELSE [drv |-> drivers[rec.drv], err |-> NoErr]

\* disconnect(name) up to `await connection.driver.disconnect()`
DisconnectBegin(c, name) ==
    /\ Free(c)
    /\ UNCHANGED <<now, connections, connectionId, d, dpc, dout, srv>>
    /\ LET rec == NewCall("disconnect", name)
       IN  IF ~Has(name)
           THEN /\ calls' = Started(c, Thrown(rec, NotFoundMsg(name)))
                /\ UNCHANGED drivers
           ELSE LET i == Get(name).driver
                    b == DriverDisconnectBegin(drivers[i])
                IN  /\ drivers' = [drivers EXCEPT ![i] = b.drv]
                    /\ calls' = Started(c,
                           [rec EXCEPT !.pc = "disconnect", !.drv = i, !.net = b.await])

\* disconnect(name) resumed when the driver's disconnect() ends
DisconnectEnd(c, outcome) ==
    /\ calls[c].pc = "disconnect"
    /\ calls[c].net \/ outcome = "ok"
    /\ UNCHANGED <<now, connectionId, d, dpc, dout, srv>>
    /\ LET rec == calls[c]
           r == DisconnectResumed(rec, outcome)
           done == IF r.err = NoErr
                   THEN Returned(rec, [name |-> rec.name, status |-> "disconnected"])
                   ELSE Thrown(rec, DisconnectFailedMsg(rec.name, r.err))
       IN  /\ drivers' = [drivers EXCEPT ![rec.drv] = r.drv]
           /\ connections' = UnregisterAfterDisconnect(rec.name, r.err)
           /\ calls' = IF connections' # connections
                       THEN AfterDelete([calls EXCEPT ![c] = done], rec.name)
                       ELSE [calls EXCEPT ![c] = done]

\* the loop of disconnectAll() left at the first disconnect that fails
StopAtFailure(err) == err = NoErr

\* The loop of disconnectAll() goes on after a disconnect that ended with `err`
ContinuesAfter(err) == TRUE

\* results.push(...) for the disconnect of `name` that ended with `err`
Outcome(name, err) ==
    IF err = NoErr THEN [name |-> name, status |-> "disconnected", message |-> NoErr]
    ELSE [name |-> name, status |-> "error",
          message |-> DisconnectFailedMsg(name, err)]

\* The loop of disconnectAll() takes the next entry of the Map `conns` and
\* runs this.disconnect(name) up to its await, or returns the results
DisconnectAllNext(rec, conns, drvs) ==
    IF rec.it < Len(conns)
    THEN LET e == conns[rec.it + 1]
             b == DriverDisconnectBegin(drvs[e.value.driver])
         IN  [rec |-> [rec EXCEPT !.it = @ + 1, !.name = e.key, !.drv = e.value.driver,
                                  !.net = b.await, !.pc = "disconnectAll"],
              drivers |-> [drvs EXCEPT ![e.value.driver] = b.drv]]
    ELSE [rec |-> Returned(rec, [results |-> rec.results]), drivers |-> drvs]

\* disconnectAll() up to the await of its first disconnect
DisconnectAllBegin(c) ==
    /\ Free(c)
    /\ UNCHANGED <<now, connections, connectionId, d, dpc, dout, srv>>
    /\ LET rec == NewCall("disconnectAll", "")
           n == DisconnectAllNext(rec, connections, drivers)
       IN  /\ drivers' = n.drivers
           /\ calls' = Started(c, n.rec)

\* disconnectAll() resumed when the disconnect it awaits ends
DisconnectAllResume(c, outcome) ==
    /\ calls[c].pc = "disconnectAll"
    /\ calls[c].net \/ outcome = "ok"
    /\ UNCHANGED <<now, connectionId, d, dpc, dout, srv>>
    /\ LET rec == calls[c]
           r == DisconnectResumed(rec, outcome)
           conns == UnregisterAfterDisconnect(rec.name, r.err)
           cs == IF conns # connections THEN AfterDelete(calls, rec.name) ELSE calls
           pushed == [cs[c] EXCEPT !.results = Append(@, Outcome(rec.name, r.err))]
           drvs == [drivers EXCEPT ![rec.drv] = r.drv]
           n == IF ContinuesAfter(r.err)
                THEN DisconnectAllNext(pushed, conns, drvs)
                ELSE [rec |-> Returned(pushed, [results |-> pushed.results]),
                      drivers |-> drvs]
       IN  /\ connections' = conns
           /\ drivers' = n.drivers
           /\ calls' = [cs EXCEPT ![c] = n.rec]

---------------------------------------------------------------------------
(* getConnection, executeQuery, testConnection, getConnectionInfo *)

\* getConnection(name) throws: !this.connections.get(name)
ConnectionMissing(name) == ~Has(name)

QueryFailedMsg(name, err) == <<"Query failed on '", name, "': ">> \o err

\* What the backend answers to a query
BackendResults == {[rows |-> <<>>, rowCount |-> 0], [rows |-> <<"row">>, rowCount |-> 1]}

\* BaseDriver.formatResults(result); a result without the field rows stands
\* for one whose rows is undefined, a rowCount of 0 for any falsy rowCount
FormatResults(result) ==
    IF "rows" \notin DOMAIN result
    THEN [success |-> TRUE, rows |-> <<>>, rowCount |-> 0]
    ELSE [success |-> TRUE, rows |-> result.rows,
          rowCount |-> IF result.rowCount # 0 THEN result.rowCount
                       ELSE Len(result.rows),
          insertId |-> Undefined]

\* MySQLDriver.formatResults(result); isArray is Array.isArray(result.rows)
MySQLFormatResults(result) ==
    IF "rows" \notin DOMAIN result
    THEN [success |-> TRUE, rows |-> <<>>, rowCount |-> 0]
    ELSE [success |-> TRUE,
          rows |-> IF result.isArray THEN result.rows ELSE <<result.rows>>,
          rowCount |-> IF result.isArray THEN Len(result.rows) ELSE 1,
          insertId |-> result.insertId, fields |-> result.fields]

\* RedisDriver.formatResults(data); isArray is Array.isArray(data.result)
RedisFormatResults(data) ==
    IF data.isArray
    THEN [success |-> TRUE, result |-> data.result, command |-> data.command,
          args |-> data.args, executionTime |-> data.executionTime,
          rows |-> data.result, rowCount |-> Len(data.result)]
    ELSE [success |-> TRUE, result |-> data.result, command |-> data.command,
          args |-> data.args, executionTime |-> data.executionTime]

\* The objects the query() of each class hands to this.formatResults, in a
\* tuple: what the client library returned for statements with and without
\* rows
FormatInputs(cls) ==
    CASE cls = "PostgreSQLDriver" ->
            <<[rows |-> <<>>, rowCount |-> 0], [rows |-> <<"row">>, rowCount |-> 1],
              [rows |-> <<>>, rowCount |-> 1], [command |-> "BEGIN"]>>
      [] cls = "DynamoDBDriver" ->
            <<[rows |-> <<>>, rowCount |-> 0], [rows |-> <<"row">>, rowCount |-> 1]>>
      [] cls = "MySQLDriver" ->
            <<[rows |-> <<>>, isArray |-> TRUE, insertId |-> Undefined, fields |-> <<>>],
              [rows |-> <<"row">>, isArray |-> TRUE, insertId |-> Undefined,
               fields |-> <<"f">>],
              [rows |-> [affectedRows |-> 1, insertId |-> 7], isArray |-> FALSE,
               insertId |-> 7, fields |-> Undefined]>>
      [] OTHER ->
            <<[result |-> "PONG", isArray |-> FALSE, command |-> "PING", args |-> <<>>,
               executionTime |-> 0],
              [result |-> Null, isArray |-> FALSE, command |-> "GET", args |-> <<"k">>,
               executionTime |-> 0],
              [result |-> <<>>, isArray |-> TRUE, command |-> "KEYS", args |-> <<"*">>,
               executionTime |-> 0],
              [result |-> <<"k">>, isArray |-> TRUE, command |-> "KEYS",
               args |-> <<"*">>, executionTime |-> 0]>>

\* this.formatResults(...) of a driver of class cls
FormatResultsOf(cls, result) ==
    CASE cls = "MySQLDriver" -> MySQLFormatResults(result)
      [] cls = "RedisDriver" -> RedisFormatResults(result)
      [] OTHER -> FormatResults(result)

\* driver.query(), to its await or to the error it throws before it
DQuery ==
    /\ UNCHANGED <<mgrVars, srv>>
    /\ d # NoDriver /\ dpc = "idle"
    /\ LET r == DriverQueryBegin(d)
       IN  /\ dpc' = IF r.await THEN "query" ELSE "idle"
           /\ dout' = Out("query", r.err, r.await)
    /\ UNCHANGED d

\* the round trip of query() ends: it returns the formatted result or throws
DQueryResume(outcome, result) ==
    /\ UNCHANGED <<mgrVars, srv>>
    /\ dpc = "query"
    /\ dpc' = "idle"
    /\ LET err == DriverQueryEnd(d, outcome)
       IN  dout' = [Out("query", err, TRUE) EXCEPT
                       !.res = IF err = NoErr THEN FormatResultsOf(d.cls, result)
                               ELSE NoVal]
    /\ UNCHANGED d

\* the timestamp left as it was
TouchNever(name) == connections

\* connection.lastUsed = new Date()
Touch(name) == [connections EXCEPT ![IndexOf(name)].value.lastUsed = now]

\* executeQuery(connectionName, sql, params) up to `await connection.driver.query()`
ExecuteQueryBegin(c, name) ==
    /\ Free(c)
    /\ UNCHANGED drivers
    /\ UNCHANGED <<now, connectionId, d, dpc, dout, srv>>
    /\ LET rec == NewCall("executeQuery", name)
       IN  IF ConnectionMissing(name)
           THEN /\ calls' = Started(c, Thrown(rec, NotFoundMsg(name)))
                /\ UNCHANGED connections
           ELSE LET i == Get(name).driver
                    b == DriverQueryBegin(drivers[i])
                IN  /\ connections' = Touch(name)
                    /\ calls' = Started(c,
                           IF b.await THEN [rec EXCEPT !.pc = "query", !.drv = i]
                           ELSE Thrown([rec EXCEPT !.drv = i], QueryFailedMsg(name, b.err)))

\* executeQuery resumed when the driver's query ends
ExecuteQueryEnd(c, outcome, result) ==
    /\ calls[c].pc = "query"
    /\ UNCHANGED <<now, connections, connectionId, drivers, d, dpc, dout, srv>>
    /\ LET rec == calls[c]
           err == DriverQueryEnd(drivers[rec.drv], outcome)
       IN  calls' = [calls EXCEPT ![c] =
               IF err = NoErr THEN Returned(rec, FormatResults(result))
               ELSE Thrown(rec, QueryFailedMsg(rec.name, err))]

\* { name: connectionName, ...result }
TestResult(name, result) ==
    [name |-> name, success |-> result.success, message |-> result.message]

\* testConnection(connectionName) up to the round trip of the driver's testConnection()
TestConnectionBegin(c, name) ==
    /\ Free(c)
    /\ UNCHANGED drivers
    /\ UNCHANGED <<now, connections, connectionId, d, dpc, dout, srv>>
    /\ LET rec == NewCall("testConnection", name)
       IN  IF ConnectionMissing(name)
           THEN calls' = Started(c, Thrown(rec, NotFoundMsg(name)))
           ELSE LET i == Get(name).driver
                    b == DriverTestBegin(drivers[i])
                IN  calls' = Started(c,
                        IF b.await THEN [rec EXCEPT !.pc = "test", !.drv = i]
                        ELSE Returned([rec EXCEPT !.drv = i], TestResult(name, b.result)))

\* testConnection resumed when the round trip ends
TestConnectionEnd(c, outcome) ==
    /\ calls[c].pc = "test"
    /\ UNCHANGED <<now, connections, connectionId, drivers, d, dpc, dout, srv>>
    /\ LET rec == calls[c]
       IN  calls' = [calls EXCEPT ![c] =
               Returned(rec, TestResult(rec.name, DriverTestEnd(drivers[rec.drv], outcome)))]

\* The object getConnectionInfo returns
ConnectionInfo(name) ==
    LET connection == Get(name)
    IN  [name |-> name, type |-> connection.config.type, host |-> connection.config.host,
         database |-> connection.config.database, user |-> connection.config.user,
         createdAt |-> connection.createdAt, lastUsed |-> connection.lastUsed]

\* getConnectionInfo(connectionName)
GetConnectionInfo(c, name) ==
    /\ Free(c)
    /\ UNCHANGED drivers
    /\ UNCHANGED <<now, connections, connectionId, d, dpc, dout, srv>>
    /\ LET rec == NewCall("getConnectionInfo", name)
       IN  calls' = Started(c,
               IF ConnectionMissing(name) THEN Thrown(rec, NotFoundMsg(name))
               ELSE Returned(rec, ConnectionInfo(name)))

---------------------------------------------------------------------------
(* getSchema(name): the manager's method is not in manager.js; from its
   contract, on the drivers' getSchema() *)

\* driver.getSchema() up to its first await
DriverSchemaBegin(drv) ==
    IF ~HasHandle(drv)
    THEN [err |-> NotConnectedMsg, await |-> FALSE]
    ELSE [err |-> NoErr, await |-> TRUE]

\* driver.getSchema() resumed with the outcome of its round trips: the
\* description it returns, or the message of the error it throws
DriverSchemaEnd(drv, outcome, tables) ==
    IF outcome = "ok" THEN [err |-> NoErr, val |-> [tables |-> tables]]
    ELSE [err |-> <<CASE drv.cls = "PostgreSQLDriver" -> "PostgreSQL schema error: "
                      [] drv.cls = "MySQLDriver" -> "MySQL schema error: "
                      [] drv.cls = "DynamoDBDriver" -> "DynamoDB schema error: "
                      [] OTHER -> "Redis schema error: ",
                    BackendMsg>>,
          val |-> NoVal]

\* the driver's error passed on as it is
SchemaErrorUnwrapped(name, err) == err

\* The driver's schema error wrapped with the connection name
SchemaFailedMsg(name, err) == <<"Schema retrieval failed for '", name, "': ">> \o err

\* getSchema(connectionName) up to `await connection.driver.getSchema()`
GetSchemaBegin(c, name) ==
    /\ Free(c)
    /\ UNCHANGED drivers
    /\ UNCHANGED <<now, connectionId, d, dpc, dout, srv>>
    /\ LET rec == NewCall("getSchema", name)
       IN  IF ConnectionMissing(name)
           THEN /\ calls' = Started(c, Thrown(rec, NotFoundMsg(name)))
                /\ UNCHANGED connections
           ELSE LET i == Get(name).driver
                    b == DriverSchemaBegin(drivers[i])
                    inv == [rec EXCEPT !.drv = i, !.invoked = TRUE]
                IN  /\ connections' = Touch(name)
                    /\ calls' = Started(c,
                           IF b.await THEN [inv EXCEPT !.pc = "schema"]
                           ELSE Thrown(inv, SchemaFailedMsg(name, b.err)))

\* getSchema resumed when the driver's getSchema ends
GetSchemaEnd(c, outcome, tables) ==
    /\ calls[c].pc = "schema"
    /\ UNCHANGED <<now, connections, connectionId, drivers, d, dpc, dout, srv>>
    /\ LET rec == calls[c]
           r == DriverSchemaEnd(drivers[rec.drv], outcome, tables)
       IN  calls' = [calls EXCEPT ![c] =
               IF r.err = NoErr THEN Returned(rec, r.val)
               ELSE Thrown(rec, SchemaFailedMsg(rec.name, r.err))]

---------------------------------------------------------------------------
(* listConnections() *)

\* the last registered connection left out of the list
ListedButLast(conns) ==
    [i \in 1..(Len(conns) - 1) |->
        [name |-> conns[i].key, type |-> conns[i].value.config.type,
         host |-> conns[i].value.config.host,
         database |-> conns[i].value.config.database,
         createdAt |-> conns[i].value.createdAt, lastUsed |-> conns[i].value.lastUsed,
         status |-> "connected"]]

\* Array.from(this.connections.entries()).map(([name, conn]) => ({ ... }))
ListedConnections(conns) ==
    [i \in 1..Len(conns) |->
        [name |-> conns[i].key, type |-> conns[i].value.config.type,
         host |-> conns[i].value.config.host,
         database |-> conns[i].value.config.database,
         createdAt |-> conns[i].value.createdAt, lastUsed |-> conns[i].value.lastUsed,
         status |-> "connected"]]

\* listConnections()
ListConnections(c) ==
    /\ Free(c)
    /\ UNCHANGED drivers
    /\ UNCHANGED <<now, connections, connectionId, d, dpc, dout, srv>>
    /\ calls' = Started(c, Returned(NewCall("listConnections", ""),
                                    [list |-> ListedConnections(connections)]))

---------------------------------------------------------------------------
(* exportConnections: the method is not in manager.js; from its contract *)

\* The fields of a configuration that hold a secret
SecretFields == {"password", "secretAccessKey"}

\* the configuration exported whole
WholeConfig(config) == config

\* A descriptor's configuration without its secret fields
SafeConfig(config) == [f \in DOMAIN config \ SecretFields |-> config[f]]

\* The object exportConnections returns: an entry per descriptor, keyed by name
ExportedConnections ==
    [i \in 1..Len(connections) |->
        [key |-> connections[i].key, value |-> SafeConfig(connections[i].value.config)]]

\* exportConnections()
ExportConnections(c) ==
    /\ Free(c)
    /\ UNCHANGED drivers
    /\ UNCHANGED <<now, connections, connectionId, d, dpc, dout, srv>>
    /\ calls' = Started(c, Returned(NewCall("exportConnections", ""),
                                    [exported |-> ExportedConnections]))

---------------------------------------------------------------------------
(* importConnections: the method is not in manager.js; from its contract *)

\* The non-secret fields an imported configuration must have
ImportRequiredFields == <<"type", "host", "database", "user">>

\* The message of the validation error of an imported configuration, NoErr
\* when it has the required fields
ImportValidation(config) ==
    LET missing == SelectSeq(ImportRequiredFields, LAMBDA f : Falsy(config[f]))
    IN  IF Len(missing) > 0
        THEN <<"Missing required fields: ">> \o Join(missing, ", ")
        ELSE NoErr

\* an existing name never skipped
ImportNeverSkips(exists, overwrite) == FALSE

\* The entry is skipped: its name is registered and overwrite is false
ImportSkips(exists, overwrite) == exists /\ ~overwrite

\* The outcome record of an entry whose processing ended with `err`
ImportOutcome(name, err) ==
    IF err = NoErr
    THEN [name |-> name, success |-> TRUE, status |-> "validated", message |-> NoErr]
    ELSE [name |-> name, success |-> FALSE, status |-> "failed", message |-> err]

ImportSkipped(name) ==
    [name |-> name, success |-> FALSE, status |-> "skipped",
     message |-> <<"Connection already exists">>]

\* The loop of importConnections over the entries not yet taken, with the Map
\* `conns`: it runs to the disconnect of an existing connection it awaits, or
\* returns the outcomes
RECURSIVE ImportNext(_, _, _)
ImportNext(rec, conns, drvs) ==
    IF rec.it >= Len(rec.arg.entries)
    THEN [rec |-> Returned(rec, [results |-> rec.results]), drivers |-> drvs]
    ELSE LET e == rec.arg.entries[rec.it + 1]
             exists == e.key \in Tokens(KeysOf(conns))
             taken == [rec EXCEPT !.it = @ + 1, !.name = e.key]
         IN  IF ImportSkips(exists, rec.arg.overwrite)
             THEN ImportNext([taken EXCEPT !.results = Append(@, ImportSkipped(e.key))],
                             conns, drvs)
             ELSE IF exists
             THEN LET i == (CHOOSE k \in Tokens(conns) : k.key = e.key).value.driver
                      b == DriverDisconnectBegin(drvs[i])
                  IN  [rec |-> [taken EXCEPT !.drv = i, !.net = b.await, !.pc = "import"],
                       drivers |-> [drvs EXCEPT ![i] = b.drv]]
             ELSE ImportNext(
                      [taken EXCEPT !.results =
                           Append(@, ImportOutcome(e.key, ImportValidation(e.value)))],
                      conns, drvs)

\* importConnections(connections, overwrite) up to its first await or its return
ImportConnectionsBegin(c, entries, overwrite) ==
    /\ Free(c)
    /\ UNCHANGED <<now, connections, connectionId, d, dpc, dout, srv>>
    /\ LET rec == [NewCall("importConnections", "") EXCEPT
                       !.arg = [entries |-> entries, overwrite |-> overwrite]]
           n == ImportNext(rec, connections, drivers)
       IN  /\ drivers' = n.drivers
           /\ calls' = Started(c, n.rec)

\* importConnections resumed when the disconnect it awaits ends
ImportConnectionsResume(c, outcome) ==
    /\ calls[c].pc = "import"
    /\ calls[c].net \/ outcome = "ok"
    /\ UNCHANGED <<now, connectionId, d, dpc, dout, srv>>
    /\ LET rec == calls[c]
           r == DisconnectResumed(rec, outcome)
           conns == UnregisterAfterDisconnect(rec.name, r.err)
           cs == IF conns # connections THEN AfterDelete(calls, rec.name) ELSE calls
           err == IF r.err # NoErr THEN DisconnectFailedMsg(rec.name, r.err)
                  ELSE ImportValidation(rec.arg.entries[rec.it].value)
           pushed == [cs[c] EXCEPT !.results = Append(@, ImportOutcome(rec.name, err))]
           n == ImportNext(pushed, conns, [drivers EXCEPT ![rec.drv] = r.drv])
       IN  /\ connections' = conns
           /\ drivers' = n.drivers
           /\ calls' = [cs EXCEPT ![c] = n.rec]

---------------------------------------------------------------------------
(* ConfigManager and the server process *)

\* configPaths: the candidate files in priority order, after filter(Boolean)
ConfigPaths(env) ==
    <<"./database-config.json", "./config.json">>
        \o (IF Falsy(env.DATABASE_CONFIG_PATH) THEN <<>> ELSE <<env.DATABASE_CONFIG_PATH>>)

\* JSON.parse(readFileSync(path)) of a candidate file that can be read and parsed
FileContent(path) ==
    CASE path = "./database-config.json" ->
            [default |-> [host |-> "h1", user |-> "u1"], primary |-> [host |-> "h1"]]
      [] path = "./config.json" ->
            [default |-> [host |-> "h2"], secondary |-> [host |-> "h2"]]
      [] OTHER -> [custom |-> [host |-> "h3"]]

\* The loop of loadConfig over the candidate files: a file that does not exist
\* is passed over, one that exists and cannot be read or parsed is passed
\* over in the catch block, the first one parsed is taken and ends the loop
RECURSIVE LoadFirst(_, _)
LoadFirst(paths, files) ==
    IF paths = <<>> THEN [config |-> [k \in {} |-> k], from |-> "none"]
    ELSE IF files[Head(paths)] = "valid"
    THEN [config |-> FileContent(Head(paths)), from |-> Head(paths)]
    ELSE LoadFirst(Tail(paths), files)

\* loadEnvironmentVariables(): this.config after it
LoadEnvironmentVariables(config, env) ==
    LET var == [host |-> "DB_HOST", port |-> "DB_PORT", database |-> "DB_NAME",
                user |-> "DB_USER", password |-> "DB_PASSWORD", type |-> "DB_TYPE"]
        set == {f \in DOMAIN var : ~Falsy(env[var[f]])}
        envConfig == [f \in set |-> IF f = "port" THEN ParseInt(env[var[f]])
                                    ELSE env[var[f]]]
        default == IF "default" \in DOMAIN config THEN config.default
                   ELSE [k \in {} |-> k]
    IN  IF set = {} THEN config
        ELSE ("default" :> (envConfig @@ default)) @@ config

\* new ConfigManager(): loadConfig() on the files and the environment found
LoadConfig(files, env) ==
    /\ srv.pc = "unloaded"
    /\ LET loaded == LoadFirst(ConfigPaths(env), files)
       IN  srv' = [srv EXCEPT !.pc = "loaded",
                              !.config = LoadEnvironmentVariables(loaded.config, env),
                              !.from = loaded.from, !.files = files, !.env = env]
    /\ UNCHANGED <<mgrVars, d, dpc, dout>>

\* the server registering the default connection of the configuration as it starts
StartServerAutoConnect ==
    /\ srv.pc = "loaded"
    /\ srv' = [srv EXCEPT !.pc = "running", !.files = [p \in {} |-> p],
                          !.env = [v \in {} |-> v]]
    /\ connections' = <<[key |-> "default",
                         value |-> [driver |-> 1,
                                    config |-> DescriptorConfig("PG", "default", EmptyConfig),
                                    createdAt |-> now, lastUsed |-> now]]>>
    /\ connectionId' = 0
    /\ UNCHANGED <<drivers, calls, now, d, dpc, dout>>

\* startServer(): new DatabaseMCPServer(), with its ToolHandlers and their
\* DatabaseManager, and start()
StartServer ==
    /\ srv.pc = "loaded"
    /\ srv' = [srv EXCEPT !.pc = "running", !.files = [p \in {} |-> p],
                          !.env = [v \in {} |-> v]]
    /\ connections' = <<>>
    /\ connectionId' = 0
    /\ UNCHANGED <<drivers, calls, now, d, dpc, dout>>

\* process.exit(code) of the handler of each event
ExitCode(event) == IF event \in {"SIGINT", "SIGTERM"} THEN 0 ELSE 1

\* The handler of a signal or of an uncaught error, through shutdown() and
\* cleanup(), up to the first await of disconnectAll()
ShutdownBegin(c) ==
    /\ srv.pc = "running"
    /\ DisconnectAllBegin(c)

\* the handler calling process.exit without waiting for shutdown()
ExitWithoutWaiting(c, event) ==
    /\ srv.pc = "running"
    /\ calls[c].op = "disconnectAll"
    /\ srv' = [srv EXCEPT !.pc = "exited", !.code = ExitCode(event)]
    /\ UNCHANGED <<mgrVars, d, dpc, dout>>

\* The handler resumed when cleanup() has ended: shutdown() returns and the
\* handler of `event` calls process.exit
ShutdownExit(c, event) ==
    /\ srv.pc = "running"
    /\ calls[c].op = "disconnectAll"
    /\ calls[c].pc = "done"
    /\ srv' = [srv EXCEPT !.pc = "exited", !.code = ExitCode(event)]
    /\ UNCHANGED <<mgrVars, d, dpc, dout>>

---------------------------------------------------------------------------
(* The specifications *)

\* The inputs of the manager's calls
Types == {"", "PG", "oracle", "postgress"}
Names == {"a", "PG_1"}
Absent == "nobody"            \* a name no connect call uses
FullConfig ==
    [EmptyConfig EXCEPT !.host = "h", !.database = "d", !.user = "u", !.password = Secret]
PartialConfig == [EmptyConfig EXCEPT !.host = "h", !.password = Secret]
DbConfigs == {FullConfig, PartialConfig}

\* The configurations connect is called with: every type with every name, and
\* the incomplete parameters with one supported type
ConnectConfigs ==
    {cfg \in [type : Types, name : Names \cup {""}, dbConfig : DbConfigs] :
        cfg.dbConfig = PartialConfig => cfg.type = "PG" /\ cfg.name = "a"}

\* The configurations importConnections is given: one with the required
\* fields and one without, for a name that may be registered and one that is not
ValidImport ==
    ("type" :> "PG") @@ [EmptyConfig EXCEPT !.host = "h", !.database = "d", !.user = "u"]
InvalidImport == ("type" :> Undefined) @@ [EmptyConfig EXCEPT !.host = "h"]
ImportInputs ==
    {<<[key |-> n[1], value |-> v1], [key |-> n[2], value |-> v2]>> :
        n \in {<<"a", Absent>>, <<Absent, "a">>},
        v1 \in {ValidImport, InvalidImport}, v2 \in {ValidImport, InvalidImport}}

\* The names the other calls are given: the registered ones and one that is not
Targets == Tokens(Keys) \cup {Absent}

Init ==
    /\ connections = <<>>
    /\ connectionId = 0
    /\ drivers = [i \in 1..MaxDrivers |-> NoDriver]
    /\ calls = [c \in Calls |-> IdleCall]
    /\ now = 0
    /\ d = NoDriver
    /\ dpc = "idle"
    /\ dout = NoOut
    /\ srv = [pc |-> "unloaded", config |-> [k \in {} |-> k], from |-> "none",
              files |-> [p \in {} |-> p], env |-> [v \in {} |-> v], code |-> -1]

\* The manager's calls one at a time: a call starts when none is in flight
Next ==
    \/ \E c \in Calls : Return(c)
    \/ \E c \in Calls, cfg \in ConnectConfigs :
           Quiet /\ ConnectBegin(c, cfg.type, cfg.name, cfg.dbConfig)
    \/ \E c \in Calls, outcome \in Outcomes : ConnectEnd(c, outcome)
    \/ \E c \in Calls, name \in Targets : Quiet /\ DisconnectBegin(c, name)
    \/ \E c \in Calls, outcome \in Outcomes : DisconnectEnd(c, outcome)
    \/ \E c \in Calls : Quiet /\ DisconnectAllBegin(c)
    \/ \E c \in Calls, outcome \in Outcomes : DisconnectAllResume(c, outcome)
    \/ \E c \in Calls, name \in Targets : Quiet /\ ExecuteQueryBegin(c, name)
    \/ \E c \in Calls, outcome \in Outcomes, result \in BackendResults :
           ExecuteQueryEnd(c, outcome, result)
    \/ \E c \in Calls, name \in Targets : Quiet /\ TestConnectionBegin(c, name)
    \/ \E c \in Calls, outcome \in Outcomes : TestConnectionEnd(c, outcome)
    \/ \E c \in Calls, name \in Targets : Quiet /\ GetConnectionInfo(c, name)
    \/ \E c \in Calls : Quiet /\ ListConnections(c)
    \/ \E c \in Calls : Quiet /\ ExportConnections(c)
    \/ \E c \in Calls, entries \in ImportInputs, overwrite \in BOOLEAN :
           Quiet /\ ImportConnectionsBegin(c, entries, overwrite)
    \/ \E c \in Calls, outcome \in Outcomes : ImportConnectionsResume(c, outcome)

Spec == Init /\ [][Next]_vars

\* The manager's calls one at a time while the clock moves on, on connections
\* with a given name
TimedConfigs ==
    {cfg \in ConnectConfigs : cfg.type = "PG" /\ cfg.dbConfig = FullConfig /\ cfg.name # ""}

TimedNext ==
    \/ Tick
    \/ \E c \in Calls : Return(c)
    \/ \E c \in Calls, cfg \in TimedConfigs :
           Quiet /\ ConnectBegin(c, cfg.type, cfg.name, cfg.dbConfig)
    \/ \E c \in Calls, outcome \in Outcomes : ConnectEnd(c, outcome)
    \/ \E c \in Calls, name \in Targets : Quiet /\ DisconnectBegin(c, name)
    \/ \E c \in Calls, outcome \in Outcomes : DisconnectEnd(c, outcome)
    \/ \E c \in Calls, name \in Targets : Quiet /\ ExecuteQueryBegin(c, name)
    \/ \E c \in Calls, outcome \in Outcomes, result \in BackendResults :
           ExecuteQueryEnd(c, outcome, result)
    \/ \E c \in Calls, name \in Targets : Quiet /\ GetConnectionInfo(c, name)
    \/ \E c \in Calls : Quiet /\ ListConnections(c)
    \/ \E c \in Calls, name \in Targets : Quiet /\ GetSchemaBegin(c, name)
    \/ \E c \in Calls, outcome \in Outcomes, tables \in {<<>>, <<"t">>} :
           GetSchemaEnd(c, outcome, tables)

TimedSpec == Init /\ [][TimedNext]_vars

\* The type strings createDriver is called with: every identifier of the
\* documentation, some of them in other letter cases, and one of no backend
RegistryTypes ==
    {"postgresql", "postgres", "pg", "PG", "POSTGRESQL", "mysql", "mysql2", "MySQL",
     "dynamodb", "dynamo", "DynamoDB", "redis", "Redis", "oracle"}

DriverNext ==
    \/ \E cls \in DriverClasses : \E config \in ConfigsOf(cls) : DConstruct(cls, config)
    \/ \E type \in RegistryTypes : \E config \in {FullConfig, EmptyConfig} :
           DCreateDriver(type, config)
    \/ DQuery
    \/ \E outcome \in Outcomes : \E i \in 1..Len(FormatInputs(d.cls)) :
           DQueryResume(outcome, FormatInputs(d.cls)[i])
    \/ DConnect
    \/ \E outcome \in Outcomes : DConnectResume(outcome)
    \/ \E outcome \in Outcomes : DConnectQuitResume(outcome)
    \/ DDisconnect
    \/ \E outcome \in Outcomes : DDisconnectResume(outcome)
    \/ DTestConnection
    \/ \E outcome \in Outcomes \cup {"odd"} : DTestResume(outcome)
    \/ DGetConnectionString

DriverSpec == Init /\ [][DriverNext]_vars

\* The manager's calls interleaved: a call may start while another is
\* suspended in a driver, on connections with a given name
ConcNext ==
    \/ \E c \in Calls : Return(c)
    \/ \E c \in Calls, name \in Names :
           /\ \A c2 \in Calls : Len(calls[c2].results) < MaxRounds
           /\ ConnectBegin(c, "PG", name, FullConfig)
    \/ \E c \in Calls, outcome \in Outcomes : ConnectEnd(c, outcome)
    \/ \E c \in Calls, name \in Names : DisconnectBegin(c, name)
    \/ \E c \in Calls, outcome \in Outcomes : DisconnectEnd(c, outcome)
    \/ \E c \in Calls : DisconnectAllBegin(c)
    \/ \E c \in Calls, outcome \in Outcomes : DisconnectAllResume(c, outcome)
    \/ \E c \in Calls, name \in Names : ExecuteQueryBegin(c, name)
    \/ \E c \in Calls, outcome \in Outcomes :
           ExecuteQueryEnd(c, outcome, [rows |-> <<>>, rowCount |-> 0])
    \/ \E c \in Calls, name \in Names : TestConnectionBegin(c, name)
    \/ \E c \in Calls, outcome \in Outcomes : TestConnectionEnd(c, outcome)
    \/ \E c \in Calls, name \in Names : GetConnectionInfo(c, name)
    \/ Tick

ConcSpec == Init /\ [][ConcNext]_vars

\* The environment variables and the candidate files the process may find
NoEnv ==
    [DATABASE_CONFIG_PATH |-> Undefined, DB_HOST |-> Undefined, DB_PORT |-> Undefined,
     DB_NAME |-> Undefined, DB_USER |-> Undefined, DB_PASSWORD |-> Undefined,
     DB_TYPE |-> Undefined]
Environments ==
    {NoEnv, [NoEnv EXCEPT !.DATABASE_CONFIG_PATH = "/etc/db.json"],
     [NoEnv EXCEPT !.DB_HOST = "envhost", !.DB_PORT = "7"],
     [NoEnv EXCEPT !.DATABASE_CONFIG_PATH = "/etc/db.json", !.DB_HOST = "envhost",
                   !.DB_PORT = "7"]}
FileSystems ==
    [{"./database-config.json", "./config.json", "/etc/db.json"} ->
        {"absent", "valid", "invalid"}]

\* The ConfigManager made when its module is loaded, on any of the files and
\* environments
ConfigNext == \E files \in FileSystems, env \in Environments : LoadConfig(files, env)

ConfigSpec == Init /\ [][ConfigNext]_vars

\* The server process: the tools call the manager one at a time on
\* connections with a given name; the events that shut the process down
\* arrive at any moment. The process starts where every candidate file
\* exists and no variable is set.
ServerNext ==
    \/ \E files \in {f \in FileSystems : \A p \in DOMAIN f : f[p] = "valid"} :
           LoadConfig(files, NoEnv)
    \/ StartServer
    \/ \E c \in Calls : srv.pc = "running" /\ calls[c].op # "disconnectAll" /\ Return(c)
    \/ \E c \in Calls, cfg \in TimedConfigs :
           srv.pc = "running" /\ Quiet /\ ConnectBegin(c, cfg.type, cfg.name, cfg.dbConfig)
    \/ \E c \in Calls, outcome \in Outcomes : srv.pc = "running" /\ ConnectEnd(c, outcome)
    \/ \E c \in Calls, name \in Targets :
           srv.pc = "running" /\ Quiet /\ ExecuteQueryBegin(c, name)
    \/ \E c \in Calls, outcome \in Outcomes, result \in BackendResults :
           srv.pc = "running" /\ ExecuteQueryEnd(c, outcome, result)
    \/ \E c \in Calls, name \in Targets :
           srv.pc = "running" /\ Quiet /\ TestConnectionBegin(c, name)
    \/ \E c \in Calls, outcome \in Outcomes :
           srv.pc = "running" /\ TestConnectionEnd(c, outcome)
    \/ \E c \in Calls : srv.pc = "running" /\ Quiet /\ ListConnections(c)
    \/ \E c \in Calls : srv.pc = "running" /\ Quiet /\ ExportConnections(c)
    \/ \E c \in Calls, entries \in {e \in ImportInputs : e[1].key = "a"},
          overwrite \in BOOLEAN :
           srv.pc = "running" /\ Quiet /\ ImportConnectionsBegin(c, entries, overwrite)
    \/ \E c \in Calls, outcome \in Outcomes :
           srv.pc = "running" /\ ImportConnectionsResume(c, outcome)
    \/ \E c \in Calls : ShutdownBegin(c)
    \/ \E c \in Calls, outcome \in Outcomes :
           srv.pc = "running" /\ DisconnectAllResume(c, outcome)
    \/ \E c \in Calls, event \in {"SIGINT", "SIGTERM", "uncaughtException",
                                    "unhandledRejection"} : ShutdownExit(c, event)

ServerSpec == Init /\ [][ServerNext]_vars

\* The server process where the event loop resumes what is suspended: a
\* disconnect awaited by disconnectAll() ends, and a handler whose shutdown()
\* has returned goes on to process.exit
LiveServerSpec ==
    /\ ServerSpec
    /\ WF_vars(\E c \in Calls, outcome \in Outcomes :
                  srv.pc = "running" /\ DisconnectAllResume(c, outcome))
    /\ WF_vars(\E c \in Calls, event \in {"SIGINT", "SIGTERM", "uncaughtException",
                                           "unhandledRejection"} : ShutdownExit(c, event))

---------------------------------------------------------------------------
(* The claims, each with the specification it is checked under *)

\* C1 (Spec): connect is all-or-nothing. While a connect call is suspended the
\* Map is as the call found it; a connect call that resolved has its derived
\* name registered under the driver whose connect() reported success; one that
\* rejected leaves the Map exactly as the call found it; and in every state
\* the driver of every registered name has had a successful connect().
C1_ConnectAllOrNothing ==
    /\ \A i \in 1..Len(connections) : drivers[connections[i].value.driver].connected
    /\ \A c \in Calls :
        calls[c].op = "connect" =>
            CASE calls[c].pc = "connect" -> connections = calls[c].conns0
              [] calls[c].pc = "done" /\ calls[c].err = NoErr ->
                    /\ HasConnection(calls[c].name)
                    /\ Get(calls[c].name).driver = calls[c].drv
                    /\ drivers[calls[c].drv].connected
                    /\ calls[c].val # NoVal
              [] OTHER -> connections = calls[c].conns0

\* A connect call rejected by the backend after its round trip, while another
\* connection is registered
C1_ConnectRejectedByBackend ==
    \E c \in Calls :
        /\ calls[c].op = "connect" /\ calls[c].pc = "done"
        /\ calls[c].drv # 0 /\ calls[c].err # NoErr
        /\ Len(connections) > 0

\* C2 (TimedSpec): a connect call given the explicit name N while N is
\* registered fails with the duplicate-name error, creates and connects no
\* driver, and leaves the Map, N's descriptor (driver, config, createdAt,
\* lastUsed) included, as the call found it.
C2_DuplicateNameRejected ==
    \A c \in Calls :
        (/\ calls[c].op = "connect" /\ calls[c].pc # "idle"
         /\ calls[c].reqName # ""
         /\ calls[c].reqName \in Tokens(KeysOf(calls[c].conns0)))
        => /\ calls[c].pc = "done"
           /\ calls[c].err = <<"Connection '", calls[c].reqName, "' already exists">>
           /\ ~calls[c].invoked
           /\ calls[c].drv = 0
           /\ connections = calls[c].conns0

\* A second connect with the name "a" has failed at a time later than the
\* last use of the connection "a"
C2_SecondConnectFailed ==
    \E c \in Calls :
        /\ calls[c].op = "connect" /\ calls[c].pc = "done"
        /\ calls[c].reqName = "a"
        /\ calls[c].err = DuplicateMsg("a")
        /\ HasConnection("a") /\ Get("a").lastUsed < now

\* C3 (Spec), as claimed: once disconnect(N) on a registered name N has
\* completed, hasConnection(N) is false whether the driver's disconnect
\* returned or threw, and when it threw the error names the connection.
C3_NameFreedWhateverDriverReports ==
    \A c \in Calls :
        (/\ calls[c].op = "disconnect" /\ calls[c].pc = "done"
         /\ calls[c].name \in Tokens(KeysOf(calls[c].conns0)))
        => /\ ~HasConnection(calls[c].name)
           /\ calls[c].err # NoErr => Contains(calls[c].err, calls[c].name)

\* C3 (Spec), as the code behaves: disconnect(N) frees N when the driver's
\* disconnect returned; when it threw, the error is wrapped with the name and
\* the Map is as the call found it, N still registered.
C3_NameKeptWhenDriverThrows ==
    \A c \in Calls :
        (/\ calls[c].op = "disconnect" /\ calls[c].pc = "done"
         /\ calls[c].name \in Tokens(KeysOf(calls[c].conns0)))
        => IF calls[c].err = NoErr
           THEN ~HasConnection(calls[c].name)
           ELSE /\ connections = calls[c].conns0
                /\ calls[c].err =
                       <<"Failed to disconnect from '", calls[c].name, "': ", BackendMsg>>

\* disconnect(N) has completed with the driver's error and N is still registered
C3_DriverThrewNameStillRegistered ==
    \E c \in Calls :
        /\ calls[c].op = "disconnect" /\ calls[c].pc = "done"
        /\ calls[c].err # NoErr
        /\ HasConnection(calls[c].name)

\* C4 (Spec): executeQuery, testConnection, disconnect and getConnectionInfo
\* called with a name that is not registered fail with the not-found error
\* without suspending in or calling any driver method, and leave the Map and
\* the auto-name counter as they found them.
C4_NotFoundBeforeAnyDriverCall ==
    \A c \in Calls :
        (/\ calls[c].op \in {"executeQuery", "testConnection", "disconnect",
                             "getConnectionInfo"}
         /\ calls[c].pc # "idle"
         /\ calls[c].name \notin Tokens(KeysOf(calls[c].conns0)))
        => /\ calls[c].pc = "done"
           /\ calls[c].err = <<"Connection '", calls[c].name, "' not found">>
           /\ calls[c].drv = 0 /\ ~calls[c].net
           /\ connections = calls[c].conns0
           /\ connectionId = calls[c].id0

\* executeQuery on a name that is not registered has failed while other names are
C4_QueryOnMissingName ==
    \E c \in Calls :
        /\ calls[c].op = "executeQuery" /\ calls[c].pc = "done"
        /\ calls[c].name = Absent
        /\ calls[c].err # NoErr
        /\ Len(connections) > 0

C6_EveryMissingFieldNamed ==
    LET required ==
            CASE d.cls \in {"PostgreSQLDriver", "MySQLDriver"} ->
                     {"host", "database", "user", "password"}
              [] d.cls = "DynamoDBDriver" -> {"region", "accessKeyId", "secretAccessKey"}
              [] d.cls = "RedisDriver" -> {"host"}
              [] OTHER -> {}
        missing == {f \in required : d.config[f] = Undefined}
    IN  dout.op = "connect" /\ missing # {} =>
            /\ dout.err # NoErr
            /\ \A f \in missing : Contains(dout.err, f)
            /\ ~dout.awaited
            /\ dpc = "idle"
            /\ ~HasHandle(d)

\* connect() of a PostgreSQL driver without database and user has failed
C6_TwoFieldsMissing ==
    /\ dout.op = "connect" /\ dout.err # NoErr
    /\ d.cls = "PostgreSQLDriver"
    /\ d.config.host # Undefined /\ d.config.password = Secret
    /\ d.config.database = Undefined /\ d.config.user = Undefined

C8_TestConnectionNeverRaises ==
    \A c \in Calls :
        (/\ calls[c].op = "testConnection" /\ calls[c].pc = "done"
         /\ calls[c].name \in Tokens(KeysOf(calls[c].conns0)))
        => /\ calls[c].err = NoErr
           /\ calls[c].val # NoVal
           /\ calls[c].val.name = calls[c].name
           /\ ~calls[c].val.success => calls[c].val.message # <<>>

\* testConnection on a registered name has returned the failure of the round trip
C8_HealthCheckFailed ==
    \E c \in Calls :
        /\ calls[c].op = "testConnection" /\ calls[c].pc = "done"
        /\ calls[c].err = NoErr
        /\ ~calls[c].val.success
        /\ Contains(calls[c].val.message, BackendMsg)

\* C9 (DriverSpec), as claimed: the string getConnectionString() returns never
\* contains the raw password or the secret access key of the configuration.
C9_ConnectionStringHidesSecret ==
    dout.op = "getConnectionString" =>
        /\ ~Contains(dout.str, Secret)
        /\ ~Contains(dout.str, SecretKey)

\* C9 (DriverSpec), as the code behaves: the string contains the raw password
\* exactly for the PostgreSQL and MySQL drivers configured with one; the Redis
\* driver shows the placeholder in its place and the DynamoDB driver shows no
\* credential.
C9_RelationalStringsShowPassword ==
    dout.op = "getConnectionString" =>
        /\ Contains(dout.str, Secret) <=>
               (d.cls \in {"PostgreSQLDriver", "MySQLDriver"} /\ d.config.password = Secret)
        /\ ~Contains(dout.str, SecretKey)
        /\ d.cls = "RedisDriver" /\ d.config.password = Secret =>
               Contains(dout.str, Placeholder)

\* getConnectionString() of a PostgreSQL driver has returned a string with the password
C9_PasswordShown ==
    /\ dout.op = "getConnectionString"
    /\ d.cls = "PostgreSQLDriver"
    /\ Contains(dout.str, Secret)

\* C10 (TimedSpec), as claimed: getConnectionInfo(name) on a registered name
\* returns the descriptor's name, type, host and timestamps together with a
\* connection string, and no field of it is the raw password.
C10_InfoCarriesConnectionString ==
    \A c \in Calls :
        (/\ calls[c].op = "getConnectionInfo" /\ calls[c].pc = "done"
         /\ calls[c].name \in Tokens(KeysOf(calls[c].conns0)))
        => /\ calls[c].err = NoErr
           /\ {"name", "type", "host", "createdAt", "lastUsed", "connectionString"}
                  \subseteq DOMAIN calls[c].val
           /\ \A f \in DOMAIN calls[c].val \ {"createdAt", "lastUsed"} :
                  calls[c].val[f] # Secret

\* C10 (TimedSpec), as the code behaves: getConnectionInfo(name) on a
\* registered name returns exactly name, type, host, database, user, createdAt
\* and lastUsed of the descriptor, no connection string, and no field of it is
\* the raw password.
C10_InfoIsMetadataOnly ==
    \A c \in Calls :
        (/\ calls[c].op = "getConnectionInfo" /\ calls[c].pc = "done"
         /\ calls[c].name \in Tokens(KeysOf(calls[c].conns0)))
        => /\ calls[c].err = NoErr
           /\ DOMAIN calls[c].val =
                  {"name", "type", "host", "database", "user", "createdAt", "lastUsed"}
           /\ calls[c].val.name = calls[c].name
           /\ calls[c].val.type = Get(calls[c].name).config.type
           /\ calls[c].val.host = Get(calls[c].name).config.host
           /\ calls[c].val.createdAt = Get(calls[c].name).createdAt
           /\ calls[c].val.lastUsed = Get(calls[c].name).lastUsed
           /\ \A f \in DOMAIN calls[c].val \ {"createdAt", "lastUsed"} :
                  calls[c].val[f] # Secret

\* getConnectionInfo has returned for a connection configured with a password
\* and used after it was created
C10_InfoReturned ==
    \E c \in Calls :
        /\ calls[c].op = "getConnectionInfo" /\ calls[c].pc = "done"
        /\ calls[c].err = NoErr
        /\ HasConnection(calls[c].name)
        /\ Get(calls[c].name).config.password = Secret
        /\ Get(calls[c].name).createdAt < Get(calls[c].name).lastUsed

\* C11 (Spec): exportConnections() returns exactly one entry per registered
\* connection, in order and keyed by its name, that holds every non-secret
\* field of its configuration, the type included; no entry has a password or
\* secretAccessKey field and no field of an entry is the original secret.
C11_ExportLeavesOutSecrets ==
    \A c \in Calls :
        calls[c].op = "exportConnections" /\ calls[c].pc = "done" =>
            /\ calls[c].err = NoErr
            /\ connections = calls[c].conns0
            /\ Len(calls[c].val.exported) = Len(connections)
            /\ \A i \in 1..Len(connections) :
                LET e == calls[c].val.exported[i]
                    config == connections[i].value.config
                IN  /\ e.key = connections[i].key
                    /\ DOMAIN e.value = DOMAIN config \ {"password", "secretAccessKey"}
                    /\ \A f \in DOMAIN e.value : e.value[f] = config[f]
                    /\ e.value["type"] = config["type"]
                    /\ \A f \in DOMAIN e.value : e.value[f] \notin {Secret, SecretKey}

\* exportConnections() has returned for two connections configured with a password
C11_TwoExported ==
    \E c \in Calls :
        /\ calls[c].op = "exportConnections" /\ calls[c].pc = "done"
        /\ Len(connections) = 2
        /\ \A i \in 1..2 : connections[i].value.config["password"] = Secret

C13_ListIsOneSnapshotPerDescriptor ==
    \A c \in Calls :
        (calls[c].op = "listConnections" /\ calls[c].pc = "done") =>
            LET list == calls[c].val.list
                found == calls[c].conns0
            IN  /\ calls[c].err = NoErr
                /\ Len(list) = Len(found)
                /\ found = <<>> => list = <<>>
                /\ connections = found
                /\ \A i \in 1..Len(found) :
                       /\ DOMAIN list[i] = {"name", "type", "host", "database",
                                            "createdAt", "lastUsed", "status"}
                       /\ list[i].name = found[i].key
                       /\ list[i].type = found[i].value.config.type
                       /\ list[i].host = found[i].value.config.host
                       /\ list[i].database = found[i].value.config.database
                       /\ list[i].createdAt = found[i].value.createdAt
                       /\ list[i].lastUsed = found[i].value.lastUsed
                       /\ list[i].status = "connected"

\* listConnections() has returned two entries, one of a connection used
\* after it was created
C13_TwoListedOneUsed ==
    \E c \in Calls :
        /\ calls[c].op = "listConnections"
        /\ calls[c].pc = "done"
        /\ Len(calls[c].val.list) = 2
        /\ \E i \in 1..2 : calls[c].val.list[i].lastUsed > calls[c].val.list[i].createdAt

\* C14 (Spec): every connect call without a name (and with a type) advances the
\* manager's counter by exactly one and is named `{type}_{n}` with n the
\* counter's new value, and no step ever lowers the counter; so the numbers
\* of the auto-generated names strictly increase and no two of them are equal.
C14_AutoNamesNumberedByCounter ==
    /\ [][connectionId' >= connectionId]_vars
    /\ [][\A c \in Calls :
            (/\ calls[c].pc = "idle"
             /\ calls'[c].op = "connect"
             /\ calls'[c].reqName = ""
             /\ calls'[c].type # "") =>
                /\ connectionId' = connectionId + 1
                /\ calls'[c].id0 = connectionId
                /\ calls'[c].name =
                       calls'[c].type \o "_" \o ToString(calls'[c].id0 + 1)]_vars

\* A second connect without a name has been given the number 2 while the
\* connection numbered 1 is registered
C14_SecondAutoName ==
    \E c \in Calls :
        /\ calls[c].op = "connect"
        /\ calls[c].pc = "done"
        /\ calls[c].reqName = ""
        /\ calls[c].name = "PG_2"
        /\ calls[c].err = NoErr
        /\ Has("PG_1")
        /\ Has("PG_2")

\* C15 as stated (Spec): a connect without a name and with a supported type in
\* upper case returns a name that starts with the lower-case type and '_',
\* and every entry listConnections() returns carries a canonical lower-case
\* type.
C15_NameAndTypeInLowerCase ==
    \A c \in Calls :
        /\ (/\ calls[c].op = "connect"
             /\ calls[c].pc = "done"
             /\ calls[c].err = NoErr
             /\ calls[c].reqName = "") =>
                \E n \in 1..(MaxAutoId + 1) :
                    calls[c].val.name = ToLowerCase(calls[c].type) \o "_" \o ToString(n)
        /\ (calls[c].op = "listConnections" /\ calls[c].pc = "done") =>
                \A i \in 1..Len(calls[c].val.list) :
                    calls[c].val.list[i].type \in Tokens(SupportedTypes)

\* C15 as the code has it (Spec): the assigned name and the listed type keep the
\* letter case the type was given in ("PG_1" and "PG" for type "PG"); the
\* connection is listed under the assigned name, and a disconnect of it that
\* returns leaves hasConnection false.
C15_NameAndTypeKeepGivenCase ==
    \A c \in Calls :
        /\ (/\ calls[c].op = "connect"
             /\ calls[c].pc = "done"
             /\ calls[c].err = NoErr
             /\ calls[c].reqName = "") =>
                /\ calls[c].val.name = calls[c].type \o "_" \o ToString(calls[c].id0 + 1)
                /\ calls[c].val.name # ToLowerCase(calls[c].type) \o "_"
                                           \o ToString(calls[c].id0 + 1)
                /\ HasConnection(calls[c].val.name)
                /\ Get(calls[c].val.name).config.type = calls[c].type
        /\ (calls[c].op = "listConnections" /\ calls[c].pc = "done") =>
                \A i \in 1..Len(calls[c].val.list) :
                    /\ calls[c].val.list[i].type = "PG"
                    /\ calls[c].val.list[i].type \notin Tokens(SupportedTypes)
        /\ (/\ calls[c].op = "disconnect"
             /\ calls[c].pc = "done"
             /\ calls[c].err = NoErr) => ~HasConnection(calls[c].name)

\* listConnections() has returned exactly one entry, named "PG_1" and of
\* type "PG", for a connection made with type "PG" and no name
C15_UpperCaseListed ==
    \E c \in Calls :
        /\ calls[c].op = "listConnections"
        /\ calls[c].pc = "done"
        /\ Len(calls[c].val.list) = 1
        /\ calls[c].val.list[1].name = "PG_1"
        /\ calls[c].val.list[1].type = "PG"
        /\ connectionId = 1

\* C16 as stated (DriverSpec): createDriver resolves, in any letter case,
\* postgresql/postgres/pg to the PostgreSQL driver, mysql/mysql2 to the MySQL
\* driver, dynamodb/dynamo to the DynamoDB driver and redis to the Redis
\* driver.
C16_EveryDocumentedTypeResolves ==
    dout.op = "createDriver" =>
        LET t == ToLowerCase(dout.arg)
        IN  /\ t \in {"postgresql", "postgres", "pg"} =>
                   dout.err = NoErr /\ d.cls = "PostgreSQLDriver"
            /\ t \in {"mysql", "mysql2"} => dout.err = NoErr /\ d.cls = "MySQLDriver"
            /\ t \in {"dynamodb", "dynamo"} => dout.err = NoErr /\ d.cls = "DynamoDBDriver"
            /\ t = "redis" => dout.err = NoErr /\ d.cls = "RedisDriver"

\* C16 as the code has it (DriverSpec): createDriver resolves, in any letter
\* case, postgresql/postgres/pg to the PostgreSQL driver and mysql/mysql2 to
\* the MySQL driver; for dynamodb, dynamo and redis, as for any other string,
\* it throws the unsupported-type error that lists those five identifiers
\* and makes no driver. The manager's state is untouched either way.
C16_OnlyRelationalTypesResolve ==
    dout.op = "createDriver" =>
        LET t == ToLowerCase(dout.arg)
        IN  /\ t \in {"postgresql", "postgres", "pg"} =>
                   dout.err = NoErr /\ d.cls = "PostgreSQLDriver"
            /\ t \in {"mysql", "mysql2"} => dout.err = NoErr /\ d.cls = "MySQLDriver"
            /\ t \notin {"postgresql", "postgres", "pg", "mysql", "mysql2"} =>
                   /\ d = NoDriver
                   /\ dout.err = <<"Unsupported database type: ", dout.arg,
                                   ". Supported types: ", "postgresql", ", ",
                                   "postgres", ", ", "pg", ", ", "mysql", ", ", "mysql2">>
            /\ connections = <<>>
            /\ connectionId = 0
            /\ \A c \in Calls : calls[c] = IdleCall

\* createDriver has thrown for the type "Redis"
C16_RedisUnsupported ==
    /\ dout.op = "createDriver"
    /\ dout.arg = "Redis"
    /\ dout.err # NoErr
    /\ d = NoDriver

\* C17 as stated (DriverSpec): when the round trip of a driver's connect() has
\* failed, the driver holds no pool or client any more and the error raised
\* is the backend's message behind a prefix that names the backend type.
C17_FailedConnectRollsBack ==
    (dout.op = "connect" /\ dout.awaited /\ dpc = "idle" /\ dout.err # NoErr) =>
        /\ ~HasHandle(d)
        /\ Len(dout.err) = 2
        /\ dout.err[1] \in {"Failed to connect to PostgreSQL: ",
                             "Failed to connect to MySQL: ",
                             "Failed to connect to DynamoDB: ",
                             "Failed to connect to Redis: "}
        /\ dout.err[2] = BackendMsg

\* C17 as the code has it (DriverSpec): after a failed round trip the DynamoDB
\* driver holds no client and raises the backend's message behind 'Failed to
\* connect to DynamoDB: '; the Redis driver does the same with its own
\* prefix when client.quit() succeeds, and keeps the client and raises the
\* error of quit() when it does not; the PostgreSQL and MySQL drivers keep
\* the pool they made and raise the backend's error as it is.
C17_OnlyDynamoDBAlwaysRollsBack ==
    (dout.op = "connect" /\ dout.awaited /\ dpc = "idle" /\ dout.err # NoErr) =>
        /\ d.cls = "DynamoDBDriver" =>
               /\ d.client = Null
               /\ dout.err = <<"Failed to connect to DynamoDB: ", BackendMsg>>
        /\ d.cls = "RedisDriver" =>
               \/ /\ d.client = Null
                  /\ dout.err = <<"Failed to connect to Redis: ", BackendMsg>>
               \/ /\ d.client = Live
                  /\ dout.err = <<QuitMsg>>
        /\ d.cls \in {"PostgreSQLDriver", "MySQLDriver"} =>
               /\ d.pool = Live
               /\ dout.err = <<BackendMsg>>

\* The connect() of a PostgreSQL driver has failed in its round trip and the
\* driver still holds the pool
C17_PoolKeptAfterFailedConnect ==
    /\ dout.op = "connect"
    /\ dout.awaited
    /\ dpc = "idle"
    /\ dout.err = <<BackendMsg>>
    /\ d.cls = "PostgreSQLDriver"
    /\ d.pool = Live

\* C18 (DriverSpec): a disconnect() of a driver that holds no pool or client,
\* because it never connected or because an earlier disconnect() released
\* the handle, returns without an error, starts no round trip to the backend
\* and leaves the driver as it was.
C18_DisconnectWithoutHandleIsNoOp ==
    [][(/\ dpc = "idle"
        /\ d # NoDriver
        /\ ~HasHandle(d)
        /\ dout'.op = "disconnect") =>
            /\ dout'.err = NoErr
            /\ ~dout'.awaited
            /\ dpc' = "idle"
            /\ d' = d]_vars

\* A Redis driver that was connected and holds no client any more has been
\* disconnected once more
C18_DisconnectedTwice ==
    /\ dout.op = "disconnect"
    /\ ~dout.awaited
    /\ dout.err = NoErr
    /\ dpc = "idle"
    /\ d.cls = "RedisDriver"
    /\ d.connected
    /\ ~HasHandle(d)

\* C19 as stated (DriverSpec): the result of every query() that returned has
\* the field rows, a sequence, and the field rowCount, an integer >= 0.
C19_RowsAlwaysDefined ==
    (dout.op = "query" /\ dout.awaited /\ dpc = "idle" /\ dout.err = NoErr) =>
        /\ "rows" \in DOMAIN dout.res
        /\ "rowCount" \in DOMAIN dout.res
        /\ Len(dout.res.rows) \in Nat
        /\ dout.res.rowCount \in Nat

\* C19 as the code has it (DriverSpec): the result of a query() of the
\* PostgreSQL, MySQL and DynamoDB drivers that returned has rows, a sequence
\* (empty when there are none), and rowCount, an integer >= 0; the result of
\* a Redis query() has rows and rowCount when the reply is an array, and has
\* neither field when the reply is a single value or null.
C19_RowsDefinedButForRedisValues ==
    (dout.op = "query" /\ dout.awaited /\ dpc = "idle" /\ dout.err = NoErr) =>
        /\ d.cls # "RedisDriver" =>
               /\ "rows" \in DOMAIN dout.res
               /\ Len(dout.res.rows) \in Nat
               /\ dout.res.rowCount \in Nat
        /\ d.cls = "RedisDriver" =>
               IF "rows" \in DOMAIN dout.res
               THEN /\ dout.res.rows = dout.res.result
                    /\ dout.res.rowCount = Len(dout.res.rows)
               ELSE /\ "rowCount" \notin DOMAIN dout.res
                    /\ dout.res.result \in {"PONG", Null}

\* A Redis query() has returned a result without rows
C19_RedisValueWithoutRows ==
    /\ dout.op = "query"
    /\ dout.err = NoErr
    /\ dout.awaited
    /\ dpc = "idle"
    /\ d.cls = "RedisDriver"
    /\ "rows" \notin DOMAIN dout.res

C21_LastUsedSetBeforeQuery ==
    \A c \in Calls :
        (/\ calls[c].op = "executeQuery"
         /\ calls[c].pc \in {"query", "done"}
         /\ calls[c].name \in Tokens(KeysOf(calls[c].conns0))) =>
            /\ Has(calls[c].name)
            /\ Get(calls[c].name).lastUsed = now
            /\ Get(calls[c].name).createdAt =
                   calls[c].conns0[CHOOSE i \in 1..Len(calls[c].conns0) :
                       calls[c].conns0[i].key = calls[c].name].value.createdAt
            /\ (calls[c].pc = "done" /\ calls[c].err # NoErr) =>
                   calls[c].err = <<"Query failed on '", calls[c].name, "': ",
                                    "PostgreSQL query error: ", BackendMsg>>

\* executeQuery has failed in the driver on a connection created at an
\* earlier time, and the descriptor's lastUsed is the time of the call
C21_FailedQueryAdvancedLastUsed ==
    \E c \in Calls :
        /\ calls[c].op = "executeQuery"
        /\ calls[c].pc = "done"
        /\ calls[c].err # NoErr
        /\ Has(calls[c].name)
        /\ Get(calls[c].name).createdAt < now
        /\ Get(calls[c].name).lastUsed = now

\* C22 (ServerSpec): until the server has started, with its configuration
\* loaded, no connection is registered; and a name that was not registered
\* becomes registered only in the step in which a connect call for that
\* name returns successfully from the driver's connect: no loading of the
\* configuration, start, list, test, query, export, import or shutdown step
\* registers a name.
C22_OnlyConnectRegisters ==
    /\ [](srv.pc \in {"unloaded", "loaded"} => connections = <<>>)
    /\ [][(srv.pc = "loaded" /\ srv'.pc = "running") => connections' = <<>>]_vars
    /\ [][\A name \in Tokens(KeysOf(connections')) \ Tokens(KeysOf(connections)) :
            \E c \in Calls :
                /\ calls[c].op = "connect"
                /\ calls[c].pc = "connect"
                /\ calls[c].name = name
                /\ calls'[c].pc = "done"
                /\ calls'[c].err = NoErr]_vars

\* In a server started with its configuration loaded from a file, an import
\* of two valid entries, made while one connection was registered, has
\* ended: both entries are only validated and no name was added
C22_ImportRegisteredNothing ==
    \E c \in Calls :
        /\ calls[c].op = "importConnections"
        /\ calls[c].pc = "done"
        /\ Len(calls[c].val.results) = 2
        /\ calls[c].val.results[1].status = "validated"
        /\ calls[c].val.results[2].status = "validated"
        /\ Len(calls[c].conns0) = 1
        /\ ~HasConnection(Absent)
        /\ Len(connections) <= 1
        /\ srv.from = "./database-config.json"

\* C23 (LiveServerSpec): the process exits only in a step of a handler whose
\* disconnectAll() has finished, with code 0 or 1; and once a handler has
\* called disconnectAll() the process does exit, whatever the disconnects of
\* the connections report.
C23_ExitAfterDisconnectAll ==
    /\ [][(srv.pc # "exited" /\ srv'.pc = "exited") =>
            /\ \E c \in Calls :
                   /\ calls[c].op = "disconnectAll"
                   /\ calls[c].pc = "done"
            /\ srv'.code \in {0, 1}]_vars
    /\ (\E c \in Calls : calls[c].op = "disconnectAll") ~> (srv.pc = "exited")

\* The process has exited after a disconnectAll() in which the disconnect of
\* a connection failed
C23_ExitedAfterFailedCleanup ==
    /\ srv.pc = "exited"
    /\ \E c \in Calls :
           /\ calls[c].op = "disconnectAll"
           /\ calls[c].pc = "done"
           /\ \E i \in 1..Len(calls[c].val.results) :
                  calls[c].val.results[i].status = "error"

\* C24 as stated (ConfigSpec): when candidate files exist, loadConfig takes its
\* configuration from the first of them in priority order and from no later
\* one.
C24_OnlyFirstExistingFileUsed ==
    srv.pc = "loaded" =>
        LET existing == SelectSeq(ConfigPaths(srv.env),
                                  LAMBDA p : srv.files[p] # "absent")
        IN  existing # <<>> =>
                /\ srv.from \in {Head(existing), "none"}
                /\ DOMAIN srv.config \ {"default"} \subseteq
                       DOMAIN FileContent(Head(existing))

\* C24 as the code has it (ConfigSpec): loadConfig takes its configuration from
\* the first candidate file, in priority order, that exists and can be read
\* and parsed, and from that file alone: a file that exists and cannot be
\* parsed is passed over and the next candidate is tried, and no entry of
\* any other file is merged in. With no such file the configuration holds
\* at most the entry `default` made from the environment.
C24_FirstParsableFileUsed ==
    srv.pc = "loaded" =>
        LET valid == SelectSeq(ConfigPaths(srv.env), LAMBDA p : srv.files[p] = "valid")
        IN  IF valid = <<>>
            THEN /\ srv.from = "none"
                 /\ DOMAIN srv.config \subseteq {"default"}
            ELSE /\ srv.from = Head(valid)
                 /\ DOMAIN srv.config \ {"default"} =
                        DOMAIN FileContent(Head(valid)) \ {"default"}
                 /\ \A k \in DOMAIN srv.config \ {"default"} :
                        srv.config[k] = FileContent(Head(valid))[k]
                 /\ Falsy(srv.env.DB_HOST) => srv.config = FileContent(Head(valid))

\* ./database-config.json exists and cannot be parsed, ./config.json can, and
\* the configuration loaded is that of ./config.json
C24_FellThroughToSecondFile ==
    /\ srv.pc = "loaded"
    /\ srv.files["./database-config.json"] = "invalid"
    /\ srv.files["./config.json"] = "valid"
    /\ srv.from = "./config.json"
    /\ "secondary" \in DOMAIN srv.config

\* C25 as stated (ConcSpec): when a connect call ends while its name is
\* registered (another connect of the same name was in flight with it and
\* ended first), it fails with the duplicate-name error and the Map is left
\* as it was: of two such calls at most one succeeds and the descriptor is
\* never overwritten.
C25_SecondConnectRejected ==
    [][\A c \in Calls :
          (/\ calls[c].op = "connect"
           /\ calls[c].pc = "connect"
           /\ calls'[c].pc = "done"
           /\ Has(calls[c].name)) =>
              /\ calls'[c].err = DuplicateMsg(calls[c].name)
              /\ connections' = connections]_vars

\* C25 as the code has it (ConcSpec): the name is looked up only before the
\* call is suspended in the driver, so every connect call suspended there
\* found its name free; when the driver's connect succeeds the call
\* registers its descriptor whatever the Map holds by then: a descriptor
\* another call registered under the name meanwhile is replaced in place by
\* the one of the call that ended last, and both calls succeed.
C25_LastConnectOverwrites ==
    /\ [](\A c \in Calls :
            calls[c].pc = "connect" =>
                calls[c].name \notin Tokens(KeysOf(calls[c].conns0)))
    /\ [][\A c \in Calls :
            (/\ calls[c].op = "connect"
             /\ calls[c].pc = "connect"
             /\ calls'[c].pc = "done"
             /\ calls'[c].err = NoErr) =>
                /\ \E i \in 1..Len(connections') :
                       /\ connections'[i].key = calls[c].name
                       /\ connections'[i].value.driver = calls[c].drv
                /\ Has(calls[c].name) => KeysOf(connections') = Keys]_vars

\* Two connect calls of the same name have both succeeded; the descriptor
\* holds the driver of one, and the driver of the other still holds its pool
C25_BothConnectsSucceeded ==
    \E c1, c2 \in Calls :
        /\ c1 # c2
        /\ calls[c1].op = "connect" /\ calls[c2].op = "connect"
        /\ calls[c1].pc = "done" /\ calls[c2].pc = "done"
        /\ calls[c1].err = NoErr /\ calls[c2].err = NoErr
        /\ calls[c1].name = calls[c2].name
        /\ Has(calls[c1].name)
        /\ Get(calls[c1].name).driver = calls[c2].drv
        /\ calls[c1].drv # calls[c2].drv
        /\ HasHandle(drivers[calls[c1].drv])

\* C26 (ConcSpec): a step of a connect, disconnect, executeQuery,
\* testConnection or getConnectionInfo call addressed to one name, whatever
\* other calls are suspended around it, leaves every other name as it was:
\* registered or not, and when registered its descriptor (driver, type,
\* timestamps) and the driver object with its config and handle.
C26_OtherNamesUntouched ==
    [][\A c \in Calls :
          (/\ calls'[c] # calls[c]
           /\ calls'[c].op \in {"connect", "disconnect", "executeQuery",
                                "testConnection", "getConnectionInfo"}) =>
              \A B \in Names \ {calls'[c].name} :
                  LET EntriesOf(conns) ==
                          {conns[i].value :
                               i \in {j \in 1..Len(conns) : conns[j].key = B}}
                  IN  /\ EntriesOf(connections') = EntriesOf(connections)
                      /\ \A e \in EntriesOf(connections) :
                             drivers'[e.driver] = drivers[e.driver]]_vars

\* While `PG_1` is registered, the clock has moved on since, and a query on
\* `PG_1` is suspended in its driver, a disconnect of `a` has removed `a`
C26_DisconnectedBesideAnother ==
    /\ Has("PG_1")
    /\ ~Has("a")
    /\ Get("PG_1").createdAt < now
    /\ \E c2 \in Calls :
           /\ calls[c2].op = "executeQuery"
           /\ calls[c2].name = "PG_1"
           /\ InFlight(c2)
    /\ \E c \in Calls :
           /\ calls[c].op = "disconnect"
           /\ calls[c].name = "a"
           /\ calls[c].pc = "done"
           /\ calls[c].err = NoErr
           /\ "PG_1" \in Tokens(KeysOf(calls[c].conns0))

\* C27 as stated (ConcSpec): no two disconnect or disconnectAll calls are
\* suspended at the same time in a release (pool.end) they each invoked on
\* the same driver: the release of a connection's handle is invoked at most
\* once.
C27_ReleaseInvokedOnce ==
    \A c1, c2 \in Calls :
        (/\ c1 # c2
         /\ calls[c1].pc \in {"disconnect", "disconnectAll"}
         /\ calls[c2].pc \in {"disconnect", "disconnectAll"}
         /\ calls[c1].net
         /\ calls[c2].net) =>
            calls[c1].drv # calls[c2].drv

\* C27 as the code has it (ConcSpec): when disconnect(name), or a pass of the
\* loop of disconnectAll(), reaches the driver, the release is invoked
\* exactly when the driver's handle field is set; the field is cleared only
\* after a release has ended, so a release that is still pending does not
\* keep a second one from being invoked.
C27_ReleaseGuardedByHandleOnly ==
    [][\A c \in Calls :
          (\/ /\ calls[c].pc = "idle"
              /\ calls'[c].pc \in {"disconnect", "disconnectAll"}
           \/ /\ calls[c].pc = "disconnectAll"
              /\ calls'[c].pc = "disconnectAll"
              /\ Len(calls'[c].results) # Len(calls[c].results)) =>
              calls'[c].net = HasHandle(drivers'[calls'[c].drv])]_vars

\* A disconnect call and a disconnectAll call are both suspended in the
\* release of the pool of the same driver
C27_TwoReleasesPending ==
    \E c1, c2 \in Calls :
        /\ calls[c1].pc = "disconnect"
        /\ calls[c2].pc = "disconnectAll"
        /\ calls[c1].net
        /\ calls[c2].net
        /\ calls[c1].drv = calls[c2].drv
        /\ calls[c1].name = calls[c2].name
        /\ HasHandle(drivers[calls[c1].drv])

\* C28 as stated (ConcSpec): when a disconnect(N) call ends while N is
\* registered with a driver other than the one the call disconnected (N was
\* registered anew while the call was suspended), the Map is left as it is:
\* the call removes only the descriptor whose driver it disconnected.
C28_RemovesOnlyOwnDescriptor ==
    [][\A c \in Calls :
          (/\ calls[c].pc = "disconnect"
           /\ calls'[c].pc = "done"
           /\ \E i \in 1..Len(connections) :
                  /\ connections[i].key = calls[c].name
                  /\ connections[i].value.driver # calls[c].drv) =>
              connections' = connections]_vars

\* C28 as the code has it (ConcSpec): a disconnect(N) call whose driver
\* disconnected without error deletes by name: whatever descriptor is
\* registered under N when the call resumes is removed, the one a later
\* connect registered with another driver included, and every other entry
\* stays.
C28_RemovesByName ==
    [][\A c \in Calls :
          (/\ calls[c].pc = "disconnect"
           /\ calls'[c].pc = "done"
           /\ calls'[c].err = NoErr) =>
              /\ \A i \in 1..Len(connections') : connections'[i].key # calls[c].name
              /\ \A i \in 1..Len(connections) :
                     connections[i].key # calls[c].name =>
                         \E j \in 1..Len(connections') : connections'[j] = connections[i]
              /\ Len(connections') =
                     Len(connections) - (IF Has(calls[c].name) THEN 1 ELSE 0)]_vars

\* A disconnect of a name has ended without error and the name is not
\* registered, although a connect call that found the name free registered
\* it with another driver while the disconnect was suspended; the pool of
\* that driver is live
C28_NewDescriptorRemoved ==
    \E c1, c2 \in Calls :
        /\ calls[c1].op = "disconnect" /\ calls[c1].pc = "done"
        /\ calls[c1].err = NoErr
        /\ calls[c2].op = "connect" /\ calls[c2].pc = "done"
        /\ calls[c2].err = NoErr
        /\ calls[c2].name = calls[c1].name
        /\ calls[c2].drv # calls[c1].drv
        /\ calls[c1].name \in Tokens(KeysOf(calls[c1].conns0))
        /\ ~Has(calls[c1].name)
        /\ HasHandle(drivers[calls[c2].drv])
        /\ drivers[calls[c2].drv].connected

\* C29 as stated (Spec): whenever no manager call is in flight, every driver
\* that holds a client handle is the driver of exactly one registered
\* descriptor.
C29_NoOrphanedHandle ==
    Quiet =>
        \A i \in 1..MaxDrivers :
            HasHandle(drivers[i]) =>
                Cardinality({k \in 1..Len(connections) :
                                 connections[k].value.driver = i}) = 1

\* C29 as the code has it (Spec): whenever no manager call is in flight,
\* every registered descriptor has a driver of its own that holds its
\* handle, and a driver that holds a handle is the driver of at most one
\* descriptor; a driver that holds a handle and belongs to no descriptor
\* never connected: it is the driver of a connect call that failed after
\* the handle was made.
C29_OrphansAreFailedConnects ==
    Quiet =>
        /\ \A k \in 1..Len(connections) :
               HasHandle(drivers[connections[k].value.driver])
        /\ \A i \in 1..MaxDrivers :
               LET owners == {k \in 1..Len(connections) :
                                  connections[k].value.driver = i}
               IN  /\ Cardinality(owners) <= 1
                   /\ (HasHandle(drivers[i]) /\ owners = {}) => ~drivers[i].connected

\* A connect call has failed in its round trip, nothing is registered, no
\* call is in flight, and the driver the call made still holds its pool
C29_PoolLeftByFailedConnect ==
    /\ Quiet
    /\ connections = <<>>
    /\ \E c \in Calls :
           /\ calls[c].op = "connect"
           /\ calls[c].pc = "done"
           /\ calls[c].err # NoErr
           /\ calls[c].drv # 0
           /\ HasHandle(drivers[calls[c].drv])
           /\ drivers[calls[c].drv].cls \in PoolClasses

\* C30 (Spec): a connect call without a name whose generated name was
\* registered when the call started has failed with the duplicate-name
\* error for that name; the Map is as the call found it, no driver was
\* made, and the counter is one more than the call found it, so the name
\* the next such call generates is another one.
C30_GeneratedNameCollides ==
    \A c \in Calls :
        (/\ calls[c].op = "connect"
         /\ calls[c].pc = "done"
         /\ calls[c].reqName = ""
         /\ calls[c].type # ""
         /\ calls[c].name \in Tokens(KeysOf(calls[c].conns0))) =>
            /\ calls[c].err = DuplicateMsg(calls[c].name)
            /\ connections = calls[c].conns0
            /\ calls[c].drv = 0
            /\ ~calls[c].invoked
            /\ connectionId = calls[c].id0 + 1
            /\ ConnectionName(calls[c].type, "") # calls[c].name
            /\ ConnectionName(calls[c].type, "") =
                   calls[c].type \o "_" \o ToString(calls[c].id0 + 2)

\* `PG_1` was registered by name; a connect call of type PG without a name
\* generated `PG_1` and failed, and the next one will generate `PG_2`
C30_CollidedWithExplicitName ==
    \E c \in Calls :
        /\ calls[c].op = "connect"
        /\ calls[c].pc = "done"
        /\ calls[c].reqName = ""
        /\ calls[c].name = "PG_1"
        /\ calls[c].id0 = 0
        /\ calls[c].err = DuplicateMsg("PG_1")
        /\ Has("PG_1")
        /\ connectionId = 1
        /\ ConnectionName("PG", "") = "PG_2"

====
